---- MODULE Spec2Model ----
(***************************************************************************)
(* ai-logger: the incremental session pipeline (pipeline.py), the session  *)
(* state store (state.py), the SQLite retry queue (queue.py) and the two   *)
(* CLI commands that drive them (cli.py: log, retry).                      *)
(*                                                                         *)
(* Every CLI invocation is an operating-system process of its own; the     *)
(* state directory, the queue database, the Codex history file and the     *)
(* remote graph are shared by all of them.  A process is modelled by its   *)
(* frame proc[p]: the position in the code (pc) and the local variables of *)
(* log / retry / process_session.                                          *)
(***************************************************************************)
EXTENDS Integers, Sequences, FiniteSets, TLC

\* ---------------------------------------------------------------- bounds
MaxLines == 1      \* entries the Codex history file may grow to
MaxJobs == 1       \* log invocations are admitted while fewer jobs were created
MaxRows == 2       \* rows direct callers of the queue module may insert
MaxCount == 4      \* retry_count up to which direct callers may call mark_failed
MaxCalls == 2      \* queue calls each of the concurrent processes may make
MaxChars == 420    \* characters of the one prompt given to the gate by itself
MaxArtifacts == 4  \* artifacts a summary handed to the renderer may hold
MaxMentions == 1   \* pull requests, and services, such a summary may hold
MaxPending == 2    \* pending jobs in the queue a retry pass starts on

\* -------------------------------------------------------- program constants
max_retries == 3       \* Settings.max_retries
MinTokens == 50        \* process_session: "transcript is too short"
GateMinTokens == 100   \* is_session_trivial: "Session too short"
PendingLimit == 100    \* get_pending_jobs(limit=100)
CharsPerToken == 4     \* token_estimate = len(raw_text) // 4
SummarizeAttempts == 3 \* summarize_transcript: stop_after_attempt(3)
PublishAttempts == 5   \* publish_to_roam: stop_after_attempt(5)
ArtifactLines == 3     \* _build_batch_actions: summary.artifacts[:3]
WaitMultiplier == 2    \* publish_to_roam: wait_exponential(multiplier=2,
WaitMin == 10          \*                                   min=10,
WaitMax == 300         \*                                   max=300)
SumWaitMultiplier == 1 \* summarize_transcript: wait_exponential(multiplier=1,
SumWaitMin == 4        \*                                        min=4,
SumWaitMax == 60       \*                                        max=60)

\* ------------------------------------------------------------ the universe
Main == "p1"      \* the process of the invocation that runs alone
Second == "p2"    \* a second process, started while the first still runs
Procs == {Main, Second}
Sessions == {"s1", "s2"}
CLAUDE_CODE == "claude-code"
CODEX == "codex"

\* A session id belongs to one conversation of one agent.
SourceOf == [s \in Sessions |-> IF s = "s1" THEN CLAUDE_CODE ELSE CODEX]

\* SessionEvent, reduced to the fields the pipeline branches on.
SessionEvent(src, sid) == [source |-> src, session_id |-> sid]
Events == {SessionEvent(SourceOf[s], s) : s \in Sessions}
NoEvent == [source |-> "none", session_id |-> "none"]

\* Sessions whose prompts the Codex history file receives.
HistorySessions == {s \in Sessions : SourceOf[s] = CODEX}

\* Lengths (characters) of the text of one history entry.
TextLens == {100, 500}
Summaries == {"sumA", "sumB"}
BlockUids == {"success"}
Times == {1, 2}

\* ------------------------------------------------------------ state store
\* The content of <state dir>/<session_id>.json.
AbsentFile == [kind |-> "absent", last_log_time |-> 0, last_line_count |-> 0,
               last_summary |-> "None"]
CorruptFile == [kind |-> "corrupt", last_log_time |-> 0, last_line_count |-> 0,
                last_summary |-> "None"]
IncompleteFile == [kind |-> "incomplete", last_log_time |-> 0, last_line_count |-> 0,
                   last_summary |-> "None"]
SessionState(t, n, s) == [kind |-> "valid", last_log_time |-> t,
                          last_line_count |-> n, last_summary |-> s]
NoState == AbsentFile

\* Files an earlier run may have left in the state directory.
InitialFiles == {AbsentFile, CorruptFile, IncompleteFile, SessionState(0, 1, "sumA")}

\* get_session_state: None (here NoState) for a missing file, for one that is no
\* JSON (corrupt) and for one that lacks a field of SessionState (incomplete).
get_session_state(files, sid) ==
    IF files[sid].kind = "valid" THEN files[sid] ELSE NoState

\* save_session_state as it would be with one file for all sessions.
save_session_state_one_file(files, sid, st) == [s \in DOMAIN files |-> st]

\* save_session_state: the file is overwritten with the dumped state.
save_session_state(files, sid, st) == [files EXCEPT ![sid] = st]

\* ----------------------------------------------------------------- parsers
\* Keyword parameters each parser's signature accepts.
ParserParams(src) ==
    IF src = CLAUDE_CODE THEN {"transcript_path"}
    ELSE {"history_path", "session_id"}

\* Fields of the ParsedTranscript model.
ParsedTranscriptFields == {"messages", "raw_text", "token_estimate"}

RECURSIVE SumLens(_)
SumLens(s) == IF s = <<>> THEN 0 ELSE Head(s) + SumLens(Tail(s))

\* len("\n\n".join("User: " + text)) for the given text lengths.
RawTextLen(lens) ==
    IF lens = <<>> THEN 0
    ELSE SumLens(lens) + 6 * Len(lens) + 2 * (Len(lens) - 1)

RECURSIVE FilterSession(_, _)
FilterSession(entries, sid) ==
    IF entries = <<>> THEN <<>>
    ELSE IF Head(entries).session_id = sid /\ Head(entries).len > 0
         THEN <<Head(entries).len>> \o FilterSession(Tail(entries), sid)
         ELSE FilterSession(Tail(entries), sid)

NoTranscript == [messages |-> <<>>, raw_len |-> 0, token_estimate |-> 0]

\* parse_codex_history(history_path, session_id) on an existing file.
parse_codex_history(entries, sid) ==
    LET msgs == FilterSession(entries, sid)
    IN  [messages |-> msgs,
         raw_len |-> RawTextLen(msgs),
         token_estimate |-> RawTextLen(msgs) \div CharsPerToken]

\* The first n elements of a sequence (all of it when it is shorter): s[:n].
Take(s, n) == IF Len(s) <= n THEN s ELSE SubSeq(s, 1, n)

\* ---------------------------------------------------------------- rendering
\* The suffix of _get_daily_page_title as it would be without the test for
\* 11..13.
ordinal_suffix_by_last_digit(day) ==
    IF day % 10 = 1 THEN "st"
    ELSE IF day % 10 = 2 THEN "nd"
    ELSE IF day % 10 = 3 THEN "rd"
    ELSE "th"

\* "th" if 11 <= day <= 13 else {1: "st", 2: "nd", 3: "rd"}.get(day % 10, "th")
ordinal_suffix(day) ==
    IF 11 <= day /\ day <= 13 THEN "th"
    ELSE IF day % 10 = 1 THEN "st"
    ELSE IF day % 10 = 2 THEN "nd"
    ELSE IF day % 10 = 3 THEN "rd"
    ELSE "th"

\* _get_daily_page_title for the local date `today`: the pieces of
\* strftime("%B {day}{suffix}, %Y"), in order.
get_daily_page_title(today) ==
    <<today.month, " ", today.day, ordinal_suffix(today.day), ", ", today.year>>

\* Local dates a call may fall on.
DaysIn == [m \in {"January", "February", "April"} |->
              IF m = "January" THEN 31 ELSE IF m = "February" THEN 28 ELSE 30]
Dates == UNION {{[month |-> m, day |-> d, year |-> 2026] : d \in 1..DaysIn[m]} :
                    m \in DOMAIN DaysIn}

\* event.tmux_session: not given (None), empty, the sentinel, a session name.
TmuxValues == {"None", "", "none", "main"}

\* The child lines _build_batch_actions makes as it would be if the tmux line
\* were left out for the sentinel only.
children_tmux_unless_none(tmux, prs, services, artifacts) ==
    <<[kind |-> "project", item |-> 0]>>
    \o (IF tmux # "none"
        THEN <<[kind |-> "tmux", item |-> 0]>> ELSE <<>>)
    \o <<[kind |-> "summary", item |-> 0]>>
    \o [k \in 1..Len(prs) |-> [kind |-> "PR", item |-> prs[k]]]
    \o [k \in 1..Len(services) |-> [kind |-> "service", item |-> services[k]]]
    \o [k \in 1..Len(Take(artifacts, ArtifactLines)) |->
           [kind |-> "artifact", item |-> artifacts[k]]]

\* The child lines _build_batch_actions makes, in order: project, tmux (when
\* the event has a tmux session that is not "none"), the summary, one line per
\* PR, one per service, one for each of the first three artifacts.
children(tmux, prs, services, artifacts) ==
    <<[kind |-> "project", item |-> 0]>>
    \o (IF tmux \notin {"None", ""} /\ tmux # "none"
        THEN <<[kind |-> "tmux", item |-> 0]>> ELSE <<>>)
    \o <<[kind |-> "summary", item |-> 0]>>
    \o [k \in 1..Len(prs) |-> [kind |-> "PR", item |-> prs[k]]]
    \o [k \in 1..Len(services) |-> [kind |-> "service", item |-> services[k]]]
    \o [k \in 1..Len(Take(artifacts, ArtifactLines)) |->
           [kind |-> "artifact", item |-> artifacts[k]]]

\* _build_batch_actions as it would be if the children were created on the
\* daily page, after the parent, instead of under it.
build_batch_actions_flat(uid, tmux, prs, services, artifacts) ==
    LET lines == children(tmux, prs, services, artifacts)
    IN  <<[parent |-> "page", order |-> "last", uid |-> uid,
           line |-> [kind |-> "header", item |-> 0]]>>
        \o [k \in 1..Len(lines) |->
               [parent |-> "page", order |-> "last", uid |-> "None",
                line |-> lines[k]]]

\* _build_batch_actions: the parent block on the daily page, then one
\* create-block action per child line under the parent, at order 0, 1, ...
build_batch_actions(uid, tmux, prs, services, artifacts) ==
    LET lines == children(tmux, prs, services, artifacts)
    IN  <<[parent |-> "page", order |-> "last", uid |-> uid,
           line |-> [kind |-> "header", item |-> 0]]>>
        \o [k \in 1..Len(lines) |->
               [parent |-> uid, order |-> k - 1, uid |-> "None", line |-> lines[k]]]

\* --------------------------------------------------------------- publishing
\* What one POST to the write endpoint comes back with: a response with a
\* status and a body, a timeout, or another transport error.
Statuses == {200, 201, 204, 400, 404, 429, 500, 503}
Bodies == {"", " ", "{\"uid\": \"b1\"}", "{}", "[]", "<html>"}
Responses ==
    [kind : {"response"}, status : Statuses, text : Bodies]
    \cup [kind : {"TimeoutException", "RequestError"}, status : {0}, text : {""}]
NoResponse == [kind |-> "none", status |-> 0, text |-> ""]

\* How an attempt ends: a returned uid (raised "None") or a raised exception
\* with the status and body its message carries.
Returns(uid) == [raised |-> "None", value |-> uid, status |-> 0, text |-> ""]
Raises(exc, status, text) ==
    [raised |-> exc, value |-> "None", status |-> status, text |-> text]
NoOutcome == Returns("None")

\* response.json() followed by result.get("uid", "success").
json_uid(text) ==
    IF text = "{\"uid\": \"b1\"}" THEN Returns("b1")
    ELSE IF text = "{}" THEN Returns("success")
    ELSE IF text = "[]" THEN Raises("AttributeError", 0, "")
    ELSE Raises("JSONDecodeError", 0, "")

\* The body of publish_to_roam as it would be with raise_for_status(), the
\* way publish_simple_block tests the status: every 2xx passes.
publish_attempt_raise_for_status(response) ==
    IF response.kind \in {"TimeoutException", "RequestError"}
    THEN Raises("RetryableRoamError", 0, "")
    ELSE IF response.status = 429 THEN Raises("RetryableRoamError", 0, "")
    ELSE IF response.status >= 500
    THEN Raises("RetryableRoamError", response.status, "")
    ELSE IF response.status < 200 \/ response.status >= 300
    THEN Raises("RoamError", response.status, response.text)
    ELSE IF response.text \in {"", " "} THEN Returns("success")
    ELSE json_uid(response.text)

\* The body of publish_to_roam from the response on (one attempt).
publish_attempt(response) ==
    IF response.kind \in {"TimeoutException", "RequestError"}
    THEN Raises("RetryableRoamError", 0, "")
    ELSE IF response.status = 429 THEN Raises("RetryableRoamError", 0, "")
    ELSE IF response.status >= 500
    THEN Raises("RetryableRoamError", response.status, "")
    ELSE IF response.status \notin {200, 204}
    THEN Raises("RoamError", response.status, response.text)
    ELSE IF response.text \in {"", " "} THEN Returns("success")
    ELSE json_uid(response.text)

\* Whether the server applied the batch of an attempt that came back with
\* `response`: it did when it answered 2xx, it did not when it refused the
\* request, and either is possible when it failed or the answer was lost.
MayApply(response) ==
    IF response.kind = "response" /\ response.status \in 200..299 THEN {TRUE}
    ELSE IF response.kind = "response" /\ response.status \in 400..499
    THEN {FALSE}
    ELSE BOOLEAN

\* The retry condition as it would be with retry_if_exception_type(Exception).
retry_if_exception(outcome) == outcome.raised # "None"

\* retry=retry_if_exception_type(RetryableRoamError)
retry_if_exception_type(outcome) == outcome.raised = "RetryableRoamError"

\* wait=wait_exponential(multiplier=2, min=10, max=300): the seconds slept
\* after the failed attempt number `attempt`.
wait_exponential(attempt) ==
    LET result == WaitMultiplier * 2 ^ (attempt - 1)
        capped == IF result <= WaitMax THEN result ELSE WaitMax
    IN  IF capped >= WaitMin THEN capped ELSE WaitMin

\* -------------------------------------------------------------- summarizing
\* What subprocess.run(["claude", "-p", prompt, ...], timeout=120) comes back
\* with: a completed process with its exit code and its two streams, or one
\* of the exceptions the body catches.
StderrTexts == {"", "Rate limit exceeded", "usage limit reached",
                "failed to generate response", "Not logged in"}
StdoutTexts == {"", "{\"summary\": \"sumA\"}",
                "~~~json\n{\"summary\": \"sumA\"}\n~~~",
                "Here it is: {\"summary\": \"sumA\"}",
                "{summary: sumA}", "I could not summarize.", "{}", "[]"}
SubprocessRuns ==
    [kind : {"completed"}, returncode : {0}, stderr : {""}, stdout : StdoutTexts]
    \cup [kind : {"completed"}, returncode : {1}, stderr : StderrTexts,
          stdout : {""}]
    \cup [kind : {"TimeoutExpired", "FileNotFoundError", "SubprocessError"},
          returncode : {0}, stderr : {""}, stdout : {""}]

\* word in stderr.lower(), for the two words the body looks for.
InLower(word, stderr) ==
    CASE word = "rate" -> stderr \in {"Rate limit exceeded",
                                      "failed to generate response"}
      [] word = "limit" -> stderr \in {"Rate limit exceeded",
                                       "usage limit reached"}
      [] OTHER -> FALSE

\* The lines of a reply that begins with a code fence, without the fence
\* lines; any other reply as it is.  (~~~ stands for the three backquotes of
\* a fence, which a string of this module cannot hold.)
strip_fences(text) ==
    IF text = "~~~json\n{\"summary\": \"sumA\"}\n~~~"
    THEN "{\"summary\": \"sumA\"}"
    ELSE text

\* json.loads(text): a dict (with its "summary" entry, "None" when it has
\* none), a list, or JSONDecodeError.
json_loads(text) ==
    IF text = "{\"summary\": \"sumA\"}" THEN [kind |-> "dict", summary |-> "sumA"]
    ELSE IF text = "{}" THEN [kind |-> "dict", summary |-> "None"]
    ELSE IF text = "[]" THEN [kind |-> "list", summary |-> "None"]
    ELSE [kind |-> "JSONDecodeError", summary |-> "None"]

\* re.search of the pattern for a brace-delimited object (DOTALL): the match,
\* or "None".
search_object(text) ==
    IF text = "Here it is: {\"summary\": \"sumA\"}"
    THEN "{\"summary\": \"sumA\"}"
    ELSE IF text \in {"{\"summary\": \"sumA\"}", "{summary: sumA}", "{}"}
    THEN text
    ELSE "None"

\* _parse_summary_response(response_text).
parse_summary_response(response_text) ==
    LET text == strip_fences(response_text)
        whole == json_loads(text)
        match == search_object(text)
        data == IF whole.kind # "JSONDecodeError" THEN whole
                ELSE IF match # "None" THEN json_loads(match)
                ELSE whole
    IN  IF data.kind = "JSONDecodeError"
        THEN Raises("SummarizationError", 0,
                    IF match # "None" THEN "Failed to parse JSON response"
                    ELSE "No JSON found in response")
        ELSE IF data.kind = "list" THEN Raises("AttributeError", 0, "")
        ELSE Returns(IF data.summary = "None" THEN "No summary available"
                     ELSE data.summary)

\* The body of summarize_transcript as it would be if every non-zero exit
\* were taken for a rate limit.
summarize_attempt_exit_retryable(run) ==
    IF run.kind = "TimeoutExpired"
    THEN Raises("RetryableError", 0, "Claude CLI timed out")
    ELSE IF run.kind = "FileNotFoundError"
    THEN Raises("SummarizationError", 0, "Claude CLI not found")
    ELSE IF run.kind = "SubprocessError"
    THEN Raises("SummarizationError", 0, "Subprocess error")
    ELSE IF run.returncode # 0
    THEN Raises("RetryableError", run.returncode, "Rate limited")
    ELSE parse_summary_response(run.stdout)

\* The body of summarize_transcript from the subprocess call on (one attempt).
summarize_attempt(run) ==
    IF run.kind = "TimeoutExpired"
    THEN Raises("RetryableError", 0, "Claude CLI timed out")
    ELSE IF run.kind = "FileNotFoundError"
    THEN Raises("SummarizationError", 0, "Claude CLI not found")
    ELSE IF run.kind = "SubprocessError"
    THEN Raises("SummarizationError", 0, "Subprocess error")
    ELSE IF run.returncode # 0
    THEN IF InLower("rate", run.stderr) \/ InLower("limit", run.stderr)
         THEN Raises("RetryableError", run.returncode, "Rate limited")
         ELSE Raises("SummarizationError", run.returncode, "Claude CLI error")
    ELSE parse_summary_response(run.stdout)

\* retry=retry_if_exception_type(RetryableError)
retry_if_retryable_error(outcome) == outcome.raised = "RetryableError"

\* wait=wait_exponential(multiplier=1, min=4, max=60): the seconds slept
\* after the failed attempt number `attempt` of summarize_transcript.
summarize_wait(attempt) ==
    LET result == SumWaitMultiplier * 2 ^ (attempt - 1)
        capped == IF result <= SumWaitMax THEN result ELSE SumWaitMax
    IN  IF capped >= SumWaitMin THEN capped ELSE SumWaitMin

\* ------------------------------------------------------------------- queue
\* event.model_dump_json(): the JSON text, the fields in declaration order.
model_dump_json(e) == <<e.source, e.session_id>>

\* SessionEvent.model_validate_json(row[1]).
model_validate_json(text) == [source |-> text[1], session_id |-> text[2]]

\* The row enqueue_failed inserts; event is the column event_json.
Job(e, err) == [event |-> model_dump_json(e), status |-> "pending", error |-> err,
                retry_count |-> 0]

RECURSIVE SortedIds(_)
SortedIds(S) ==
    IF S = {} THEN <<>>
    ELSE LET m == CHOOSE x \in S : \A y \in S : x <= y
         IN  <<m>> \o SortedIds(S \ {m})

\* get_pending_jobs as it would be without WHERE status = 'pending'.
get_pending_jobs_any_status(table, limit) ==
    LET ids == Take(SortedIds(DOMAIN table), limit)
    IN  [k \in 1..Len(ids) |->
            [id |-> ids[k], event |-> model_validate_json(table[ids[k]].event)]]

\* get_pending_jobs: pending rows, oldest first, at most `limit` of them.
\* created_at is the clock reading at the INSERT, so the rows ordered by
\* created_at are the rows in the order of their inserts, which is the order of
\* their AUTOINCREMENT ids.
get_pending_jobs(table, limit) ==
    LET ids == Take(SortedIds({i \in DOMAIN table : table[i].status = "pending"}), limit)
    IN  [k \in 1..Len(ids) |->
            [id |-> ids[k], event |-> model_validate_json(table[ids[k]].event)]]

\* The largest id of the table (0 for the empty table).
MaxRowId(table) ==
    IF DOMAIN table = {} THEN 0
    ELSE CHOOSE m \in DOMAIN table : \A i \in DOMAIN table : i <= m

\* enqueue_failed as it would be with id INTEGER PRIMARY KEY, without
\* AUTOINCREMENT: the new row gets the largest id in the table plus one.
enqueue_failed_rowid(table, lastid, e, err) ==
    [i \in (DOMAIN table) \cup {MaxRowId(table) + 1} |->
        IF i = MaxRowId(table) + 1 THEN Job(e, err) ELSE table[i]]

\* enqueue_failed: INSERT of one pending row under the next AUTOINCREMENT id.
enqueue_failed(table, lastid, e, err) ==
    [i \in (DOMAIN table) \cup {lastid + 1} |->
        IF i = lastid + 1 THEN Job(e, err) ELSE table[i]]

\* cursor.lastrowid after the INSERT that made table `after` of table `before`.
lastrowid(before, after) == CHOOSE i \in DOMAIN after \ DOMAIN before : TRUE

\* mark_completed as it would be if it also reset the retry count.
mark_completed_reset(table, id) ==
    [i \in DOMAIN table |->
        IF i = id THEN [table[i] EXCEPT !.status = "completed", !.retry_count = 0]
        ELSE table[i]]

\* mark_completed: UPDATE ... SET status = 'completed' WHERE id = ?
mark_completed(table, id) ==
    [i \in DOMAIN table |->
        IF i = id THEN [table[i] EXCEPT !.status = "completed"] ELSE table[i]]

\* mark_failed as it would be if the CASE read the incremented count.
mark_failed_post(table, id, err) ==
    [i \in DOMAIN table |->
        IF i = id
        THEN [table[i] EXCEPT
                !.status = IF table[i].retry_count + 1 >= max_retries
                           THEN "failed" ELSE "pending",
                !.error = err,
                !.retry_count = table[i].retry_count + 1]
        ELSE table[i]]

\* mark_failed as it would be without conn.commit(): the UPDATE is rolled
\* back when the connection closes.
mark_failed_uncommitted(table, id, err) == table

\* mark_failed as it would be if it set status = 'failed' without the CASE.
mark_failed_always(table, id, err) ==
    [i \in DOMAIN table |->
        IF i = id
        THEN [table[i] EXCEPT !.status = "failed", !.error = err,
                              !.retry_count = table[i].retry_count + 1]
        ELSE table[i]]

\* mark_failed: UPDATE ... SET status = CASE WHEN retry_count >= max_retries ...,
\* retry_count = retry_count + 1 WHERE id = ?  (the CASE reads the old count)
mark_failed(table, id, err) ==
    [i \in DOMAIN table |->
        IF i = id
        THEN [table[i] EXCEPT
                !.status = IF table[i].retry_count >= max_retries
                           THEN "failed" ELSE "pending",
                !.error = err,
                !.retry_count = table[i].retry_count + 1]
        ELSE table[i]]

\* get_queue_status: the number of rows of each status, and of all rows.
CountStatus(table, st) == Cardinality({i \in DOMAIN table : table[i].status = st})

get_queue_status(table) ==
    [pending |-> CountStatus(table, "pending"),
     completed |-> CountStatus(table, "completed"),
     failed |-> CountStatus(table, "failed"),
     total |-> Cardinality(DOMAIN table)]

\* clear_completed as it would be without the test of the status.
clear_completed_any_status(table, old) ==
    [i \in DOMAIN table \ old |-> table[i]]

\* clear_completed: DELETE the completed rows last updated before the cutoff;
\* `old` are the ids of the rows whose updated_at is before it.
clear_completed(table, old) ==
    LET gone == {i \in DOMAIN table : table[i].status = "completed" /\ i \in old}
    IN  [i \in DOMAIN table \ gone |-> table[i]]

\* ------------------------------------------------------------------- state
VARIABLES
    store,            \* state directory: session id -> file content
    history,          \* the Codex history file: entries [session_id, len]
    jobs,             \* the jobs table: id -> row
    seq,              \* sqlite_sequence of the jobs table (last id given out)
    landed,           \* remote graph: transcript ranges published at least once
    relanded,         \* remote graph: transcript ranges published more than once
    proc              \* the frame of each running CLI process

vars == <<store, history, jobs, seq, landed, relanded, proc>>

NoCalls == [classifier |-> 0, summarizer |-> 0, publisher |-> 0]
NoMark == [id |-> 0, call |-> "none", outcome |-> "none", error |-> "None"]

\* What the triviality gate of a run was told and what it returned.
NoGate == [said |-> "none", trivial |-> FALSE, reason |-> "None"]

\* The last call a process made of a function of queue.py or state.py from
\* outside the pipeline: the function, its arguments and what it returned.
NoApi == [op |-> "none", id |-> 0, limit |-> 0, event |-> NoEvent,
          rows |-> <<>>, count |-> 0, stats |-> get_queue_status(<<>>),
          sid |-> "none", state |-> NoState, old |-> {}]

\* A frame.  pc, cmd, event and the locals of process_session (start_line,
\* previous_summary, transcript, context, summary, block_uid) and of retry
\* (pending, idx, job_id); outcome and error are what process_session hands its
\* caller.  The rest records what the invocation saw and did, for the
\* properties: the session's state file when the run began (before), the length
\* of the transcript when it was parsed (seen_lines), the external calls of the
\* run (calls), the jobs table when a log invocation began (jobs_before), the
\* id of the job it created (enqueued), the last queue call of a retry pass
\* (mark), the last direct call of the queue or state module (api) and the
\* state last saved for each session by such calls (saved); gate is the reply
\* and the verdict of the triviality check, kept until the summarizer is called.
\* No rendering function called yet.
NoDate == [month |-> "none", day |-> 0, year |-> 0]
NoRender == [fn |-> "none", today |-> NoDate, title |-> <<>>, tmux |-> "None",
             prs |-> <<>>, services |-> <<>>, artifacts |-> <<>>,
             actions |-> <<>>]

\* No publish_to_roam call in progress.  attempt counts the attempts made,
\* wait is the last sleep, landed the parent uids of the batches the server
\* applied for this call.
NoPub == [pc |-> "idle", attempt |-> 0, wait |-> 0, response |-> NoResponse,
          outcome |-> NoOutcome, landed |-> {}, result |-> NoOutcome]

\* No summarize_transcript call in progress.  runs holds what the subprocess
\* call of each attempt so far came back with, wait is the last sleep.
NoSum == [pc |-> "idle", runs |-> <<>>, wait |-> 0, result |-> NoOutcome]

\* No queue call in progress on this process's connection.  txn is what the
\* connection's open transaction has written (the jobs table and the
\* AUTOINCREMENT sequence) and rowid its cursor.lastrowid; made and marked
\* record the calls that returned: the ids enqueue_failed returned and the
\* number of mark_failed calls per job; calls counts the calls begun.
NoTxn == [jobs |-> <<>>, seq |-> 0]
NoDb == [pc |-> "idle", op |-> "none", id |-> 0, event |-> NoEvent,
         txn |-> NoTxn, rowid |-> 0, calls |-> 0, made |-> <<>>,
         marked |-> [i \in 1..MaxRows |-> 0]]

Idle == [pc |-> "idle", cmd |-> "none", event |-> NoEvent,
         start_line |-> 0, previous_summary |-> "None",
         transcript |-> NoTranscript, context |-> "None",
         summary |-> "None", block_uid |-> "None",
         outcome |-> "none", error |-> "None",
         pending |-> <<>>, idx |-> 0, job_id |-> 0,
         before |-> AbsentFile, seen_lines |-> 0, calls |-> NoCalls,
         jobs_before |-> <<>>, enqueued |-> 0, mark |-> NoMark,
         api |-> NoApi, saved |-> [s \in Sessions |-> NoState],
         gate |-> NoGate, attempt |-> 0, render |-> NoRender, pub |-> NoPub,
         sum |-> NoSum, db |-> NoDb]

Init ==
    /\ \E file \in InitialFiles : store = [s \in Sessions |-> file]
    /\ history = <<>>
    /\ jobs = <<>>
    /\ seq = 0
    /\ landed = {}
    /\ relanded = {}
    /\ proc = [p \in Procs |-> Idle]

\* ------------------------------------------------------ frames and outcomes
\* The frame of a process that enters process_session(e).
BeginRun(f, e) ==
    [f EXCEPT !.pc = "load", !.event = e,
              !.start_line = 0, !.previous_summary = "None",
              !.transcript = NoTranscript, !.context = "None",
              !.summary = "None", !.block_uid = "None",
              !.outcome = "none", !.error = "None",
              !.before = AbsentFile, !.seen_lines = 0, !.calls = NoCalls,
              !.gate = NoGate, !.attempt = 0]

\* process_session is left: the caller holds the outcome; of the locals the
\* frame keeps the summary and the block uid, as a record of what was published.
Leave(f, how, what) ==
    [f EXCEPT !.pc = "end", !.outcome = how, !.error = what,
              !.start_line = 0, !.previous_summary = "None",
              !.transcript = NoTranscript, !.context = "None"]

\* process_session raises SessionSkipped(reason).
Skipped(f, reason) == Leave(f, "skipped", reason)

\* process_session raises any other exception.
Raised(f, err) == Leave(f, "failed", err)

\* process_session returns block_uid.
Returned(f) == Leave(f, "success", "None")

Set(p, f) == proc' = [proc EXCEPT ![p] = f]

\* No other invocation is under way.
Alone(p) == \A q \in Procs \ {p} : proc[q].pc = "idle"


\* ------------------------------------------------------------ environment
\* The Codex CLI appends a prompt of some session to its history file.
AppendHistory ==
    /\ Len(history) < MaxLines
    /\ \E sid \in HistorySessions, n \in TextLens :
          history' = Append(history, [session_id |-> sid, len |-> n])
    /\ UNCHANGED <<store, jobs, seq, landed, relanded, proc>>

\* --------------------------------------------------------------- cli: log
\* `ai-logger log ...`: build the event and call process_session.
StartLog(p) ==
    /\ proc[p].pc = "idle"
    /\ seq < MaxJobs
    /\ \E e \in Events :
          Set(p, BeginRun([Idle EXCEPT !.cmd = "log", !.jobs_before = jobs], e))
    /\ UNCHANGED <<store, history, jobs, seq, landed, relanded>>

\* log as it would be with a bare `except Exception: pass`.
LogEnd_Swallow(p) ==
    /\ proc[p].pc = "end"
    /\ proc[p].cmd = "log"
    /\ Set(p, [proc[p] EXCEPT !.pc = "done"])
    /\ UNCHANGED <<store, history, jobs, seq, landed, relanded>>

\* log as it would be without the `except SessionSkipped` clause.
LogEnd_QueueSkips(p) ==
    /\ proc[p].pc = "end"
    /\ proc[p].cmd = "log"
    /\ IF proc[p].outcome # "success"
       THEN /\ jobs' = enqueue_failed(jobs, seq, proc[p].event, proc[p].error)
            /\ seq' = seq + 1
            /\ Set(p, [proc[p] EXCEPT !.pc = "done", !.enqueued = seq + 1])
       ELSE /\ Set(p, [proc[p] EXCEPT !.pc = "done"])
            /\ UNCHANGED <<jobs, seq>>
    /\ UNCHANGED <<store, history, landed, relanded>>

\* The try/except around process_session in log.
LogEnd(p) ==
    /\ proc[p].pc = "end"
    /\ proc[p].cmd = "log"
    /\ IF proc[p].outcome = "failed"
       THEN /\ jobs' = enqueue_failed(jobs, seq, proc[p].event, proc[p].error)
            /\ seq' = seq + 1
            /\ Set(p, [proc[p] EXCEPT !.pc = "done", !.enqueued = seq + 1])
       ELSE /\ Set(p, [proc[p] EXCEPT !.pc = "done"])
            /\ UNCHANGED <<jobs, seq>>
    /\ UNCHANGED <<store, history, landed, relanded>>

\* ------------------------------------------------------------- cli: retry
\* `ai-logger retry`: list the pending jobs and start on the first.
StartRetry(p) ==
    /\ proc[p].pc = "idle"
    /\ LET js == get_pending_jobs(jobs, PendingLimit)
       IN  IF js = <<>>
           THEN Set(p, [Idle EXCEPT !.cmd = "retry", !.pc = "done"])
           ELSE Set(p, BeginRun([Idle EXCEPT !.cmd = "retry", !.pending = js,
                                             !.idx = 1, !.job_id = js[1].id],
                                js[1].event))
    /\ UNCHANGED <<store, history, jobs, seq, landed, relanded>>

\* retry as it would be without the `except SessionSkipped` clause.
RetryCall_SkipFails(outcome) ==
    IF outcome = "success" THEN "mark_completed" ELSE "mark_failed"

\* The queue call the retry loop makes for the outcome of one job's run.
RetryCall(outcome) ==
    IF outcome \in {"success", "skipped"} THEN "mark_completed" ELSE "mark_failed"

\* The retry loop as it would be if a failed job ended the pass.
RetryMark_StopOnFailure(p) ==
    /\ proc[p].pc = "end"
    /\ proc[p].cmd = "retry"
    /\ LET f == proc[p]
           call == RetryCall(f.outcome)
           g == [f EXCEPT !.mark = [id |-> f.job_id, call |-> call,
                                    outcome |-> f.outcome, error |-> f.error]]
       IN  /\ jobs' = IF call = "mark_completed"
                      THEN mark_completed(jobs, f.job_id)
                      ELSE mark_failed(jobs, f.job_id, f.error)
           /\ IF f.idx < Len(f.pending) /\ call = "mark_completed"
              THEN Set(p, BeginRun([g EXCEPT !.idx = f.idx + 1,
                                             !.job_id = f.pending[f.idx + 1].id],
                                   f.pending[f.idx + 1].event))
              ELSE Set(p, [g EXCEPT !.pc = "done"])
    /\ UNCHANGED <<store, history, seq, landed, relanded>>

\* The try/except of the retry loop for the current job, then the next job.
RetryMark(p) ==
    /\ proc[p].pc = "end"
    /\ proc[p].cmd = "retry"
    /\ LET f == proc[p]
           call == RetryCall(f.outcome)
           g == [f EXCEPT !.mark = [id |-> f.job_id, call |-> call,
                                    outcome |-> f.outcome, error |-> f.error]]
       IN  /\ jobs' = IF call = "mark_completed"
                      THEN mark_completed(jobs, f.job_id)
                      ELSE mark_failed(jobs, f.job_id, f.error)
           /\ IF f.idx < Len(f.pending)
              THEN Set(p, BeginRun([g EXCEPT !.idx = f.idx + 1,
                                             !.job_id = f.pending[f.idx + 1].id],
                                   f.pending[f.idx + 1].event))
              ELSE Set(p, [g EXCEPT !.pc = "done"])
    /\ UNCHANGED <<store, history, seq, landed, relanded>>

\* The process exits.
Exit(p) ==
    /\ proc[p].pc = "done"
    /\ Set(p, Idle)
    /\ UNCHANGED <<store, history, jobs, seq, landed, relanded>>

\* ------------------------------------------------- pipeline: process_session
\* The load step as it would be with one state file read for every session.
LoadState_SharedFile(p) ==
    /\ proc[p].pc = "load"
    /\ LET st == get_session_state(store, CHOOSE s \in Sessions : TRUE)
       IN  Set(p, [proc[p] EXCEPT
                     !.pc = "parse",
                     !.before = store[proc[p].event.session_id],
                     !.start_line = IF st.kind = "valid" THEN st.last_line_count ELSE 0,
                     !.previous_summary = IF st.kind = "valid" THEN st.last_summary
                                          ELSE "None"])
    /\ UNCHANGED <<store, history, jobs, seq, landed, relanded>>

\* Load previous session state.
LoadState(p) ==
    /\ proc[p].pc = "load"
    /\ LET st == get_session_state(store, proc[p].event.session_id)
       IN  Set(p, [proc[p] EXCEPT
                     !.pc = "parse",
                     !.before = store[proc[p].event.session_id],
                     !.start_line = IF st.kind = "valid" THEN st.last_line_count ELSE 0,
                     !.previous_summary = IF st.kind = "valid" THEN st.last_summary
                                          ELSE "None"])
    /\ UNCHANGED <<store, history, jobs, seq, landed, relanded>>

\* Parse transcript based on source.  The Claude Code parser is called with the
\* keyword start_line, which its signature does not take: the call raises
\* TypeError before the parser runs.
Parse(p) ==
    /\ proc[p].pc = "parse"
    /\ LET f == proc[p]
       IN  IF f.event.source = CLAUDE_CODE
           THEN /\ "start_line" \notin ParserParams(CLAUDE_CODE)
                /\ Set(p, Raised(f, "TypeError"))
           ELSE Set(p, [f EXCEPT
                          !.pc = "gate",
                          !.seen_lines = Len(history),
                          !.transcript =
                              parse_codex_history(history, f.event.session_id)])
    /\ UNCHANGED <<store, history, jobs, seq, landed, relanded>>

\* Replies of the `claude -p --model haiku` triviality check.
\* (the last three are exceptions of subprocess.run: TimeoutExpired,
\* FileNotFoundError and any other SubprocessError).
ClassifierReplies == {"YES", "NO", "UNCLEAR", "EXIT_NONZERO", "TIMEOUT",
                      "NOT_FOUND", "SUBPROCESS_ERROR"}

\* is_session_trivial as it would be with the pipeline's floor of 50 tokens.
is_session_trivial_low_floor(t, reply) ==
    IF t.token_estimate < MinTokens
    THEN [trivial |-> TRUE, reason |-> "Session too short", called |-> FALSE]
    ELSE IF reply = "EXIT_NONZERO"
    THEN [trivial |-> FALSE, reason |-> "Triviality check failed", called |-> TRUE]
    ELSE IF reply = "NO"
    THEN [trivial |-> TRUE, reason |-> "Trivial activity", called |-> TRUE]
    ELSE IF reply = "YES"
    THEN [trivial |-> FALSE, reason |-> "Worth logging", called |-> TRUE]
    ELSE IF reply = "UNCLEAR"
    THEN [trivial |-> FALSE, reason |-> "Unclear triviality check", called |-> TRUE]
    ELSE [trivial |-> FALSE, reason |-> "Triviality check error", called |-> TRUE]

\* is_session_trivial as it would be if a failed check counted as trivial.
is_session_trivial_fail_closed(t, reply) ==
    IF t.token_estimate < GateMinTokens
    THEN [trivial |-> TRUE, reason |-> "Session too short", called |-> FALSE]
    ELSE IF reply = "YES"
    THEN [trivial |-> FALSE, reason |-> "Worth logging", called |-> TRUE]
    ELSE IF reply = "UNCLEAR"
    THEN [trivial |-> FALSE, reason |-> "Unclear triviality check", called |-> TRUE]
    ELSE IF reply = "NO"
    THEN [trivial |-> TRUE, reason |-> "Trivial activity", called |-> TRUE]
    ELSE [trivial |-> TRUE, reason |-> "Triviality check failed", called |-> TRUE]

\* is_session_trivial: (is_trivial, reason), and whether the classifier ran.
is_session_trivial(t, reply) ==
    IF t.token_estimate < GateMinTokens
    THEN [trivial |-> TRUE, reason |-> "Session too short", called |-> FALSE]
    ELSE IF reply = "EXIT_NONZERO"
    THEN [trivial |-> FALSE, reason |-> "Triviality check failed", called |-> TRUE]
    ELSE IF reply = "NO"
    THEN [trivial |-> TRUE, reason |-> "Trivial activity", called |-> TRUE]
    ELSE IF reply = "YES"
    THEN [trivial |-> FALSE, reason |-> "Worth logging", called |-> TRUE]
    ELSE IF reply = "UNCLEAR"
    THEN [trivial |-> FALSE, reason |-> "Unclear triviality check", called |-> TRUE]
    ELSE [trivial |-> FALSE, reason |-> "Triviality check error", called |-> TRUE]

\* process_session as it would be if the length check raised an exception that
\* is no SessionSkipped.
Gate_ShortRaises(p) ==
    /\ proc[p].pc = "gate"
    /\ LET f == proc[p]
       IN  IF f.transcript.messages = <<>>
           THEN Set(p, Skipped(f, "No new content since last log"))
           ELSE IF f.transcript.token_estimate < MinTokens
           THEN Set(p, Raised(f, "New content too short to log"))
           ELSE \E reply \in ClassifierReplies :
                  LET r == is_session_trivial(f.transcript, reply)
                      g == [f EXCEPT !.calls.classifier =
                                        IF r.called THEN @ + 1 ELSE @,
                                     !.gate = [said |-> IF r.called THEN reply
                                                        ELSE "none",
                                               trivial |-> r.trivial,
                                               reason |-> r.reason]]
                  IN  IF r.trivial
                      THEN Set(p, Skipped(g, r.reason))
                      ELSE Set(p, [g EXCEPT !.pc = "summarize"])
    /\ UNCHANGED <<store, history, jobs, seq, landed, relanded>>

\* The three skip checks that follow the parse.
Gate(p) ==
    /\ proc[p].pc = "gate"
    /\ LET f == proc[p]
       IN  IF f.transcript.messages = <<>>
           THEN Set(p, Skipped(f, "No new content since last log"))
           ELSE IF f.transcript.token_estimate < MinTokens
           THEN Set(p, Skipped(f, "New content too short to log"))
           ELSE \E reply \in ClassifierReplies :
                  LET r == is_session_trivial(f.transcript, reply)
                      g == [f EXCEPT !.calls.classifier =
                                        IF r.called THEN @ + 1 ELSE @,
                                     !.gate = [said |-> IF r.called THEN reply
                                                        ELSE "none",
                                               trivial |-> r.trivial,
                                               reason |-> r.reason]]
                  IN  IF r.trivial
                      THEN Set(p, Skipped(g, r.reason))
                      ELSE Set(p, [g EXCEPT !.pc = "summarize"])
    /\ UNCHANGED <<store, history, jobs, seq, landed, relanded>>

\* The context prefix as it would be with `if state:` in place of
\* `if previous_summary:`.
context_prefix_if_state(previous_summary) == previous_summary

\* The previous summary put in front of raw_text for the summarizer, "None"
\* when raw_text goes in as it is: `if previous_summary:` is false for None
\* and for the empty string.
context_prefix(previous_summary) ==
    IF previous_summary \in {"None", ""} THEN "None" ELSE previous_summary

\* What one attempt of summarize_transcript gives back or raises: a summary,
\* SummarizationError (permanent) or RetryableError (rate limit, timeout).
SummarizerResults == Summaries \cup {"SummarizationError", "RetryableError"}

\* Add context from the previous summary, then summarize with Claude: one
\* attempt of the call; `attempts` is the stop_after_attempt of its decorator
\* and the frame's attempt the number of attempts the call in progress made.
\* A RetryableError is followed by another attempt until the last one, whose
\* failure tenacity raises as RetryError; any other exception is not retried.
SummarizeUpTo(p, attempts) ==
    /\ proc[p].pc = "summarize"
    /\ \E r \in SummarizerResults :
          LET f == [proc[p] EXCEPT
                      !.context = context_prefix(proc[p].previous_summary),
                      !.calls.summarizer = IF proc[p].attempt = 0 THEN @ + 1
                                           ELSE @,
                      !.attempt = @ + 1,
                      !.gate = NoGate]
              left == [f EXCEPT !.attempt = 0]
          IN  IF r \in Summaries
              THEN Set(p, [left EXCEPT !.pc = "publish", !.summary = r])
              ELSE IF r = "RetryableError"
              THEN IF f.attempt < attempts
                   THEN Set(p, f)
                   ELSE Set(p, Raised(left, "RetryError"))
              ELSE Set(p, Raised(left, r))
    /\ UNCHANGED <<store, history, jobs, seq, landed, relanded>>

\* process_session as it would be if the summarizer had the retry policy of
\* the publisher.
Summarize_PublishPolicy(p) == SummarizeUpTo(p, PublishAttempts)

Summarize(p) == SummarizeUpTo(p, SummarizeAttempts)

\* The transcript lines a run's summary covers: the messages parsed after
\* start_line (the Codex parser takes no offset and parses from the top).
Range(f) ==
    [session_id |-> f.event.session_id,
     from |-> IF f.event.source = CODEX THEN 0 ELSE f.start_line,
     count |-> Len(f.transcript.messages)]

\* What publish_to_roam gives back or raises.
PublishResults == BlockUids \cup {"RoamError"}

\* process_session as it would be with the state saved ahead of the publish.
Publish_SaveFirst(p) ==
    /\ proc[p].pc = "publish"
    /\ \E r \in PublishResults, t \in Times :
          LET f == [proc[p] EXCEPT !.calls.publisher = @ + 1]
          IN  /\ store' = save_session_state(store, f.event.session_id,
                              SessionState(t, f.seen_lines, f.summary))
              /\ IF r \in BlockUids
                 THEN /\ landed' = landed \cup {Range(f)}
                      /\ relanded' = IF Range(f) \in landed
                                     THEN relanded \cup {Range(f)} ELSE relanded
                      /\ Set(p, [f EXCEPT !.pc = "save", !.block_uid = r])
                 ELSE /\ Set(p, Raised(f, r))
                      /\ UNCHANGED <<landed, relanded>>
    /\ UNCHANGED <<history, jobs, seq>>

\* Publish to Roam.
Publish(p) ==
    /\ proc[p].pc = "publish"
    /\ \E r \in PublishResults :
          LET f == [proc[p] EXCEPT !.calls.publisher = @ + 1]
          IN  IF r \in BlockUids
              THEN /\ landed' = landed \cup {Range(f)}
                   /\ relanded' = IF Range(f) \in landed
                                  THEN relanded \cup {Range(f)} ELSE relanded
                   /\ Set(p, [f EXCEPT !.pc = "save", !.block_uid = r])
              ELSE /\ Set(p, Raised(f, r))
                   /\ UNCHANGED <<landed, relanded>>
    /\ UNCHANGED <<store, history, jobs, seq>>

\* Save updated state: SessionState(..., last_line_count=transcript.total_lines,
\* ...) reads a field ParsedTranscript does not have and raises AttributeError.
SaveState(p) ==
    /\ proc[p].pc = "save"
    /\ LET f == proc[p]
       IN  IF "total_lines" \notin ParsedTranscriptFields
           THEN /\ Set(p, Raised(f, "AttributeError"))
                /\ UNCHANGED store
           ELSE \E t \in Times :
                  /\ store' = save_session_state(store, f.event.session_id,
                                 SessionState(t, f.transcript.total_lines, f.summary))
                  /\ Set(p, Returned(f))
    /\ UNCHANGED <<history, jobs, seq, landed, relanded>>

\* -------------------------------------------------------------------- spec
\* Steps inside an invocation, and the history file growing under it.
Step ==
    \/ AppendHistory
    \/ \E p \in Procs : LogEnd(p)
    \/ \E p \in Procs : RetryMark(p)
    \/ \E p \in Procs : Exit(p)
    \/ \E p \in Procs : LoadState(p)
    \/ \E p \in Procs : Parse(p)
    \/ \E p \in Procs : Gate(p)
    \/ \E p \in Procs : Summarize(p)
    \/ \E p \in Procs : Publish(p)
    \/ \E p \in Procs : SaveState(p)

\* One invocation after the other (one hook event, one cron retry at a time).
Log == Alone(Main) /\ StartLog(Main)

Retry == Alone(Main) /\ StartRetry(Main)

Next ==
    \/ Step
    \/ Log
    \/ Retry

Spec == Init /\ [][Next]_vars

\* One log invocation after the other on whatever an earlier version or run
\* left behind: any state file, a saved state with an empty summary included,
\* and any history file.
ContextFiles == InitialFiles \cup {SessionState(0, 1, "")}

Histories ==
    UNION {[1..n -> [session_id : HistorySessions, len : TextLens]] :
              n \in 0..MaxLines}

InitLog ==
    /\ \E file \in ContextFiles : store = [s \in Sessions |-> file]
    /\ history \in Histories
    /\ jobs = <<>>
    /\ seq = 0
    /\ landed = {}
    /\ relanded = {}
    /\ proc = [p \in Procs |-> Idle]

NextLog ==
    \/ Log
    \/ LoadState(Main)
    \/ Parse(Main)
    \/ Gate(Main)
    \/ Summarize(Main)
    \/ Publish(Main)
    \/ SaveState(Main)
    \/ LogEnd(Main)
    \/ Exit(Main)

SpecLog == InitLog /\ [][NextLog]_vars

\* ------------------------------------- log invocations, a file per session
\* The state directory as earlier runs of several sessions may have left it:
\* each session's file by itself absent, unreadable or valid.
FrameFiles == ContextFiles \cup {SessionState(0, 0, "sumB")}

InitFrame ==
    /\ store \in [Sessions -> FrameFiles]
    /\ history \in Histories
    /\ jobs = <<>>
    /\ seq = 0
    /\ landed = {}
    /\ relanded = {}
    /\ proc = [p \in Procs |-> Idle]

SpecFrame == InitFrame /\ [][NextLog]_vars

\* ------------------------------------------- one retry pass after the other
\* The queues earlier invocations left behind: one to MaxPending pending
\* jobs, each enqueued by a failed log run and failed since by no pass or by
\* as many passes as its retry count says.
PassQueues ==
    UNION {[1..n -> {[Job(e, "RoamError") EXCEPT !.retry_count = c] :
                        e \in Events, c \in {0, max_retries}}] :
              n \in 1..MaxPending}

InitPass ==
    /\ \E file \in InitialFiles : store = [s \in Sessions |-> file]
    /\ history \in Histories
    /\ jobs \in PassQueues
    /\ seq = Len(jobs)
    /\ landed = {}
    /\ relanded = {}
    /\ proc = [p \in Procs |-> Idle]

\* A retry invocation that runs alone on such a queue, while no session is
\* being recorded.
PassStart == jobs \in PassQueues /\ Retry

NextPass ==
    \/ PassStart
    \/ LoadState(Main)
    \/ Parse(Main)
    \/ Gate(Main)
    \/ Summarize(Main)
    \/ Publish(Main)
    \/ SaveState(Main)
    \/ RetryMark(Main)
    \/ Exit(Main)

SpecPass == InitPass /\ [][NextPass]_vars

\* ----------------------------------------------------- the gate by itself
\* The transcript of a Codex session with one prompt of n characters.
OnePrompt(n) == parse_codex_history(<<[session_id |-> "s2", len |-> n]>>, "s2")

\* is_session_trivial called directly, as the tests call it.
GCall ==
    /\ proc[Main] = Idle
    /\ \E n \in 1..MaxChars, reply \in ClassifierReplies :
          LET t == OnePrompt(n)
              r == is_session_trivial(t, reply)
          IN  Set(Main, [Idle EXCEPT
                           !.transcript = t,
                           !.calls.classifier = IF r.called THEN 1 ELSE 0,
                           !.gate = [said |-> IF r.called THEN reply ELSE "none",
                                     trivial |-> r.trivial,
                                     reason |-> r.reason]])
    /\ UNCHANGED <<store, history, jobs, seq, landed, relanded>>

\* process_session up to the parse, for a Codex event whose history holds one
\* prompt of n characters and whose session has no stored state.
GParsed ==
    /\ proc[Main] = Idle
    /\ \E n \in 1..MaxChars :
          Set(Main, [BeginRun([Idle EXCEPT !.cmd = "log"],
                              SessionEvent(CODEX, "s2"))
                       EXCEPT !.pc = "gate", !.seen_lines = 1,
                              !.transcript = OnePrompt(n)])
    /\ UNCHANGED <<store, history, jobs, seq, landed, relanded>>

\* The direct call has returned; a run is not followed past the gate.
GLeave ==
    /\ \/ proc[Main].pc \in {"end", "summarize"}
       \/ proc[Main].pc = "idle" /\ proc[Main] # Idle
    /\ Set(Main, Idle)
    /\ UNCHANGED <<store, history, jobs, seq, landed, relanded>>

NextGate ==
    \/ GCall
    \/ GParsed
    \/ Gate(Main)
    \/ GLeave

\* The gate reads no file: the state directory starts out empty.
InitGate == Init /\ store = [s \in Sessions |-> AbsentFile]

SpecGate == InitGate /\ [][NextGate]_vars

\* The same invocations when every started process keeps running to its exit
\* (each subprocess and HTTP call has a timeout) and cron keeps starting retry
\* passes.
SpecFair == Spec /\ WF_vars(Step) /\ SF_vars(Retry)

\* A retry pass started while another retry pass is still running.
RetryOverlap ==
    /\ proc[Main].cmd = "retry"
    /\ proc[Main].pc # "done"
    /\ StartRetry(Second)

NextOverlap ==
    \/ Next
    \/ RetryOverlap

SpecOverlap == Init /\ [][NextOverlap]_vars

\* ------------------------------------------------- the queue module by itself
\* Any caller of queue.py: the functions called directly, in any order.
ErrorTexts == {"RoamError"}

\* The frame of the calling process after a direct call.
Called(call) == proc' = [proc EXCEPT ![Main].api = call]

\* Limits callers pass to get_pending_jobs.
Limits == (1..MaxRows) \cup {PendingLimit}

QEnqueue ==
    /\ seq < MaxRows
    /\ \E e \in Events, err \in ErrorTexts :
          /\ jobs' = enqueue_failed(jobs, seq, e, err)
          /\ Called([NoApi EXCEPT !.op = "enqueue_failed", !.event = e,
                                  !.id = lastrowid(jobs, jobs')])
    /\ seq' = seq + 1
    /\ UNCHANGED <<store, history, landed, relanded>>

QGetPending ==
    /\ \E limit \in Limits :
          Called([NoApi EXCEPT !.op = "get_pending_jobs", !.limit = limit,
                               !.rows = get_pending_jobs(jobs, limit)])
    /\ UNCHANGED <<store, history, jobs, seq, landed, relanded>>

QMarkCompleted ==
    /\ \E id \in DOMAIN jobs :
          /\ jobs' = mark_completed(jobs, id)
          /\ Called([NoApi EXCEPT !.op = "mark_completed", !.id = id])
    /\ UNCHANGED <<store, history, seq, landed, relanded>>

QMarkFailed ==
    /\ \E id \in DOMAIN jobs, err \in ErrorTexts :
          /\ jobs[id].retry_count < MaxCount
          /\ jobs' = mark_failed(jobs, id, err)
          /\ Called([NoApi EXCEPT !.op = "mark_failed", !.id = id])
    /\ UNCHANGED <<store, history, seq, landed, relanded>>

QStatus ==
    /\ Called([NoApi EXCEPT !.op = "get_queue_status",
                            !.stats = get_queue_status(jobs)])
    /\ UNCHANGED <<store, history, jobs, seq, landed, relanded>>

\* clear_completed at some time: any of the rows may be older than the cutoff.
QClearCompleted ==
    /\ \E old \in SUBSET DOMAIN jobs :
          /\ jobs' = clear_completed(jobs, old)
          /\ Called([NoApi EXCEPT !.op = "clear_completed", !.old = old,
                                  !.count = Cardinality(DOMAIN jobs \ DOMAIN jobs')])
    /\ UNCHANGED <<store, history, seq, landed, relanded>>

NextQueue ==
    \/ QEnqueue
    \/ QGetPending
    \/ QMarkCompleted
    \/ QMarkFailed
    \/ QStatus
    \/ QClearCompleted

\* The queue module does not read the state directory: it starts out empty.
InitQueue == Init /\ store = [s \in Sessions |-> AbsentFile]

SpecQueue == InitQueue /\ [][NextQueue]_vars

\* ------------------------------------- queue calls of concurrent processes
\* The calls of a kind that processes have begun and not finished.
InCall(op, id) ==
    {q \in Procs : /\ proc[q].db.pc \in {"connected", "written"}
                    /\ proc[q].db.op = op
                    /\ proc[q].db.id = id}

\* A process enters enqueue_failed, mark_completed or mark_failed:
\* _get_connection() opens its own connection.
CCall(p) ==
    /\ proc[p].db.pc = "idle"
    /\ proc[p].db.calls < MaxCalls
    /\ \/ /\ seq + Cardinality(InCall("enqueue_failed", 0)) < MaxRows
          /\ \E e \in Events :
                Set(p, [proc[p] EXCEPT !.db.pc = "connected",
                                       !.db.calls = @ + 1,
                                       !.db.op = "enqueue_failed",
                                       !.db.event = e])
       \/ \E id \in DOMAIN jobs :
             Set(p, [proc[p] EXCEPT !.db.pc = "connected",
                                    !.db.calls = @ + 1,
                                    !.db.op = "mark_failed", !.db.id = id])
       \/ \E id \in DOMAIN jobs :
             Set(p, [proc[p] EXCEPT !.db.pc = "connected",
                                    !.db.calls = @ + 1,
                                    !.db.op = "mark_completed", !.db.id = id])
    /\ UNCHANGED <<store, history, jobs, seq, landed, relanded>>

\* The database as it would be without a write lock: every connection may
\* write at any time.
CanWrite_unlocked(p) == TRUE

\* SQLite lets one connection at a time hold a write transaction: the INSERT
\* or UPDATE of conn.execute() starts one, so it needs every other connection
\* to have committed.
CanWrite(p) == \A q \in Procs \ {p} : proc[q].db.pc # "written"

\* conn.execute(INSERT ... / UPDATE ...): the statement runs inside the
\* connection's transaction, on the committed table.
CExec(p) ==
    /\ proc[p].db.pc = "connected"
    /\ CanWrite(p)
    /\ LET f == proc[p].db
           table == CASE f.op = "enqueue_failed" ->
                           enqueue_failed(jobs, seq, f.event, "RoamError")
                      [] f.op = "mark_failed" ->
                           mark_failed(jobs, f.id, "RoamError")
                      [] f.op = "mark_completed" -> mark_completed(jobs, f.id)
       IN  Set(p, [proc[p] EXCEPT
                     !.db.pc = "written",
                     !.db.txn = [jobs |-> table,
                                 seq |-> IF f.op = "enqueue_failed"
                                         THEN seq + 1 ELSE seq],
                     !.db.rowid = IF f.op = "enqueue_failed"
                                  THEN lastrowid(jobs, table) ELSE 0])
    /\ UNCHANGED <<store, history, jobs, seq, landed, relanded>>

\* conn.execute() while another connection holds the write transaction for
\* longer than the connection's busy timeout: sqlite3.OperationalError
\* (database is locked) leaves the call, nothing written.
CBusy(p) ==
    /\ proc[p].db.pc = "connected"
    /\ ~CanWrite(p)
    /\ Set(p, [proc[p] EXCEPT !.db.pc = "idle", !.db.op = "none",
                              !.db.id = 0, !.db.event = NoEvent])
    /\ UNCHANGED <<store, history, jobs, seq, landed, relanded>>

\* conn.commit(), then conn.close() and the return: the transaction's writes
\* become the committed table.
CCommit(p) ==
    /\ proc[p].db.pc = "written"
    /\ LET f == proc[p].db
       IN  /\ jobs' = f.txn.jobs
           /\ seq' = f.txn.seq
           /\ Set(p, [proc[p] EXCEPT
                         !.db.pc = "idle", !.db.op = "none", !.db.id = 0,
                         !.db.event = NoEvent, !.db.txn = NoTxn,
                         !.db.rowid = 0,
                         !.db.made = IF f.op = "enqueue_failed"
                                     THEN Append(@, f.rowid) ELSE @,
                         !.db.marked = IF f.op = "mark_failed"
                                       THEN [@ EXCEPT ![f.id] = @ + 1] ELSE @])
    /\ UNCHANGED <<store, history, landed, relanded>>

NextConcurrent ==
    \/ \E p \in Procs : CCall(p)
    \/ \E p \in Procs : CExec(p)
    \/ \E p \in Procs : CBusy(p)
    \/ \E p \in Procs : CCommit(p)

SpecConcurrent == InitQueue /\ [][NextConcurrent]_vars

\* ------------------------------------------------- the state module by itself
\* Any caller of state.py: the two functions called directly, in any order.
SSave ==
    /\ \E sid \in Sessions, t \in Times, n \in 0..MaxLines, s \in Summaries :
          /\ store' = save_session_state(store, sid, SessionState(t, n, s))
          /\ proc' = [proc EXCEPT
                         ![Main].api = [NoApi EXCEPT !.op = "save_session_state",
                                                     !.sid = sid,
                                                     !.state = SessionState(t, n, s)],
                         ![Main].saved[sid] = SessionState(t, n, s)]
    /\ UNCHANGED <<history, jobs, seq, landed, relanded>>

SGet ==
    /\ \E sid \in Sessions :
          Called([NoApi EXCEPT !.op = "get_session_state", !.sid = sid,
                               !.state = get_session_state(store, sid)])
    /\ UNCHANGED <<store, history, jobs, seq, landed, relanded>>

NextState ==
    \/ SSave
    \/ SGet

SpecState == Init /\ [][NextState]_vars

\* ------------------------------------------- the renderer, called directly
\* A caller of roam.py's rendering functions: the date of the call, the
\* event's tmux session and the summary's lists are the inputs.
RTitle ==
    /\ \E today \in Dates :
          proc' = [proc EXCEPT ![Main].render =
                      [NoRender EXCEPT !.fn = "_get_daily_page_title",
                                       !.today = today,
                                       !.title = get_daily_page_title(today)]]
    /\ UNCHANGED <<store, history, jobs, seq, landed, relanded>>

RBuild ==
    /\ \E tmux \in TmuxValues, np \in 0..MaxMentions, ns \in 0..MaxMentions,
          na \in 0..MaxArtifacts :
          LET prs == [k \in 1..np |-> k]
              services == [k \in 1..ns |-> k]
              artifacts == [k \in 1..na |-> k]
          IN  proc' = [proc EXCEPT ![Main].render =
                          [NoRender EXCEPT
                              !.fn = "_build_batch_actions",
                              !.tmux = tmux, !.prs = prs,
                              !.services = services, !.artifacts = artifacts,
                              !.actions = build_batch_actions(
                                  "uid", tmux, prs, services, artifacts)]]
    /\ UNCHANGED <<store, history, jobs, seq, landed, relanded>>

NextRender ==
    \/ RTitle
    \/ RBuild

SpecRender == InitQueue /\ [][NextRender]_vars

\* ------------------------------------------ publish_to_roam, called directly
\* publish_to_roam(event, summary) is called.
PCall ==
    /\ proc[Main].pub.pc = "idle"
    /\ proc' = [proc EXCEPT ![Main].pub = [NoPub EXCEPT !.pc = "attempt"]]
    /\ UNCHANGED <<store, history, jobs, seq, landed, relanded>>

\* One attempt: the function body runs from the top, so _build_batch_actions
\* draws a new parent uid (here the attempt's number), the batch is posted
\* and the response is classified; tenacity then returns the value, raises
\* the exception, sleeps before another attempt, or gives up with RetryError.
PAttempt ==
    /\ proc[Main].pub.pc = "attempt"
    /\ \E response \in Responses : \E applied \in MayApply(response) :
          LET f == proc[Main].pub
              n == f.attempt + 1
              parent_uid == n
              outcome == publish_attempt(response)
              g == [f EXCEPT !.attempt = n, !.response = response,
                             !.outcome = outcome,
                             !.landed = IF applied THEN @ \cup {parent_uid}
                                        ELSE @]
          IN  proc' = [proc EXCEPT ![Main].pub =
                 IF ~retry_if_exception_type(outcome)
                 THEN [g EXCEPT !.pc = IF outcome.raised = "None"
                                       THEN "returned" ELSE "raised",
                                !.result = outcome]
                 ELSE IF n >= PublishAttempts
                 THEN [g EXCEPT !.pc = "raised",
                                !.result = Raises("RetryError", 0, "")]
                 ELSE [g EXCEPT !.pc = "wait", !.wait = wait_exponential(n)]]
    /\ UNCHANGED <<store, history, jobs, seq, landed, relanded>>

\* The sleep between two attempts is over.
PSleep ==
    /\ proc[Main].pub.pc = "wait"
    /\ proc' = [proc EXCEPT ![Main].pub.pc = "attempt"]
    /\ UNCHANGED <<store, history, jobs, seq, landed, relanded>>

\* The caller has the result and may call again.
PDone ==
    /\ proc[Main].pub.pc \in {"returned", "raised"}
    /\ proc' = [proc EXCEPT ![Main].pub = NoPub]
    /\ UNCHANGED <<store, history, jobs, seq, landed, relanded>>

NextPublish ==
    \/ PCall
    \/ PAttempt
    \/ PSleep
    \/ PDone

SpecPublish == InitQueue /\ [][NextPublish]_vars

\* ------------------------------------- summarize_transcript, called directly
\* summarize_transcript(transcript, event) is called.
SCall ==
    /\ proc[Main].sum.pc = "idle"
    /\ proc' = [proc EXCEPT ![Main].sum = [NoSum EXCEPT !.pc = "attempt"]]
    /\ UNCHANGED <<store, history, jobs, seq, landed, relanded>>

\* One attempt: the function body runs from the top, the subprocess call
\* comes back and the body returns or raises; tenacity then returns the
\* value, raises the exception, sleeps before another attempt, or gives up
\* with RetryError.
SAttempt ==
    /\ proc[Main].sum.pc = "attempt"
    /\ \E run \in SubprocessRuns :
          LET f == proc[Main].sum
              g == [f EXCEPT !.runs = Append(@, run)]
              n == Len(g.runs)
              outcome == summarize_attempt(run)
          IN  proc' = [proc EXCEPT ![Main].sum =
                 IF ~retry_if_retryable_error(outcome)
                 THEN [g EXCEPT !.pc = IF outcome.raised = "None"
                                       THEN "returned" ELSE "raised",
                                !.result = outcome]
                 ELSE IF n >= SummarizeAttempts
                 THEN [g EXCEPT !.pc = "raised",
                                !.result = Raises("RetryError", 0, "")]
                 ELSE [g EXCEPT !.pc = "wait", !.wait = summarize_wait(n)]]
    /\ UNCHANGED <<store, history, jobs, seq, landed, relanded>>

\* The sleep between two attempts is over.
SSleep ==
    /\ proc[Main].sum.pc = "wait"
    /\ proc' = [proc EXCEPT ![Main].sum.pc = "attempt"]
    /\ UNCHANGED <<store, history, jobs, seq, landed, relanded>>

\* The caller has the result and may call again.
SDone ==
    /\ proc[Main].sum.pc \in {"returned", "raised"}
    /\ proc' = [proc EXCEPT ![Main].sum = NoSum]
    /\ UNCHANGED <<store, history, jobs, seq, landed, relanded>>

NextSummarize ==
    \/ SCall
    \/ SAttempt
    \/ SSleep
    \/ SDone

SpecSummarize == InitQueue /\ [][NextSummarize]_vars

\* =================================================================== claims
\* A frame whose process_session call is over.
Over(p) == proc[p].pc \in {"end", "done"}

SessionOf(p) == proc[p].event.session_id

\* A run that is past its parse step.
Parsed(p) ==
    \/ proc[p].pc \in {"gate", "summarize", "publish", "save"}
    \/ Over(p) /\ proc[p].outcome # "none"

\* ---------------------------------------------------------------------- C1
\* C1: a process_session run that ends in failure leaves the stored
\* SessionState of its session exactly as it was when the run began.
C1_FailedRunKeepsState ==
    \A p \in Procs :
        (Over(p) /\ proc[p].outcome = "failed")
            => store[SessionOf(p)] = proc[p].before

\* A run that failed after its publish, while building the new state, for a
\* session that has a stored state.
C1_Witness ==
    \E p \in Procs :
        /\ Over(p)
        /\ proc[p].outcome = "failed"
        /\ proc[p].error = "AttributeError"
        /\ proc[p].before.kind = "valid"

\* ---------------------------------------------------------------------- C2
\* C2: every run whose publish step succeeded ends as a success that returns
\* the block identifier and has stored last_line_count = the total_lines the
\* run observed and last_summary = the run's summary.
C2_PublishedRunSavesState ==
    \A p \in Procs :
        (Over(p) /\ proc[p].block_uid # "None")
            => /\ proc[p].outcome = "success"
               /\ store[SessionOf(p)].kind = "valid"
               /\ store[SessionOf(p)].last_line_count = proc[p].seen_lines
               /\ store[SessionOf(p)].last_summary = proc[p].summary

\* ---------------------------------------------------------------------- C3
\* C3: a run whose publish landed never also ends as Failed, and no range of
\* transcript lines is published more than once.
C3_NoDuplicatePublish ==
    /\ \A p \in Procs :
          (Over(p) /\ proc[p].block_uid # "None") => proc[p].outcome # "failed"
    /\ relanded = {}

\* ---------------------------------------------------------------------- C4
\* C4: a log invocation whose run raised anything but SessionSkipped has added
\* exactly one job, pending, holding its event and the error text, and left the
\* other jobs alone; a finished log invocation was published, skipped or queued.
C4_FailedLogIsQueued ==
    \A p \in Procs :
        (proc[p].cmd = "log" /\ proc[p].pc = "done")
            => /\ proc[p].outcome \in {"success", "skipped", "failed"}
               /\ proc[p].outcome = "success" => proc[p].block_uid # "None"
               /\ proc[p].outcome = "failed" =>
                     /\ proc[p].enqueued \notin DOMAIN proc[p].jobs_before
                     /\ DOMAIN jobs = DOMAIN proc[p].jobs_before \cup {proc[p].enqueued}
                     /\ jobs[proc[p].enqueued] =
                            [event |-> model_dump_json(proc[p].event), status |-> "pending",
                             error |-> proc[p].error, retry_count |-> 0]
                     /\ \A i \in DOMAIN proc[p].jobs_before :
                            jobs[i] = proc[p].jobs_before[i]

\* A log invocation that failed and has returned.
C4_Witness ==
    \E p \in Procs :
        /\ proc[p].cmd = "log"
        /\ proc[p].pc = "done"
        /\ proc[p].outcome = "failed"
        /\ proc[p].enqueued \in DOMAIN jobs

\* ---------------------------------------------------------------------- C5
\* C5: a log invocation that ends Skipped enqueues no job, publishes nothing,
\* never calls the summarizer and leaves the session's stored state unchanged.
C5_SkippedLogChangesNothing ==
    \A p \in Procs :
        (proc[p].cmd = "log" /\ proc[p].pc = "done" /\ proc[p].outcome = "skipped")
            => /\ jobs = proc[p].jobs_before
               /\ proc[p].enqueued = 0
               /\ proc[p].calls.summarizer = 0
               /\ proc[p].calls.publisher = 0
               /\ proc[p].block_uid = "None"
               /\ store[SessionOf(p)] = proc[p].before

\* A log invocation the classifier judged trivial, returned.
C5_Witness ==
    \E p \in Procs :
        /\ proc[p].cmd = "log"
        /\ proc[p].pc = "done"
        /\ proc[p].outcome = "skipped"
        /\ proc[p].calls.classifier = 1

\* ---------------------------------------------------------------------- C6
\* C6: in a retry pass the outcome of a job's run decides the queue call made
\* for it: success and Skipped lead to mark_completed, any other exception to
\* mark_failed with the error text.
C6_RetryOutcomeDecidesCall ==
    \A p \in Procs :
        LET m == proc[p].mark
        IN  m.call # "none" =>
              /\ m.id \in DOMAIN jobs
              /\ m.outcome \in {"success", "skipped"} =>
                    /\ m.call = "mark_completed"
                    /\ jobs[m.id].status = "completed"
              /\ m.outcome \notin {"success", "skipped"} =>
                    /\ m.call = "mark_failed"
                    /\ jobs[m.id].status \in {"pending", "failed"}
                    /\ jobs[m.id].error = m.error
                    /\ jobs[m.id].retry_count > 0

\* A pass has marked a job whose run was skipped.
C6_Witness ==
    \E p \in Procs :
        /\ proc[p].mark.outcome = "skipped"
        /\ proc[p].mark.call = "mark_completed"

\* ---------------------------------------------------------------------- C7
\* The rows a step marks failed: those whose retry_count it changes.
MarkedFailed == {i \in DOMAIN jobs \cap DOMAIN jobs' :
                    jobs'[i].retry_count # jobs[i].retry_count}

\* C7 as stated: each mark_failed call adds one to retry_count, and the job is
\* failed from the call at which retry_count reaches max_retries, pending before.
C7_FailedWhenCountReachesMax ==
    [][\A i \in MarkedFailed :
          /\ jobs'[i].retry_count = jobs[i].retry_count + 1
          /\ jobs'[i].status = IF jobs'[i].retry_count >= max_retries
                               THEN "failed" ELSE "pending"]_vars

\* C7, amended: each mark_failed call adds one to retry_count; the job is still
\* pending after each of the first max_retries calls and becomes failed at the
\* next call, the one that finds retry_count at max_retries already.
C7_FailedWhenCountExceedsMax ==
    [][\A i \in MarkedFailed :
          /\ jobs'[i].retry_count = jobs[i].retry_count + 1
          /\ jobs'[i].status = IF jobs[i].retry_count >= max_retries
                               THEN "failed" ELSE "pending"]_vars

\* A job marked failed max_retries times and still pending.
C7_Witness ==
    \E i \in DOMAIN jobs :
        /\ jobs[i].retry_count = max_retries
        /\ jobs[i].status = "pending"

\* ---------------------------------------------------------------------- C8
\* C8: mark_completed and mark_failed leave the status and the retry_count of a
\* job that is already completed or failed unchanged.
C8_TerminalJobsUntouched ==
    [][\A i \in DOMAIN jobs \cap DOMAIN jobs' :
          jobs[i].status \in {"completed", "failed"}
              => /\ jobs'[i].status = jobs[i].status
                 /\ jobs'[i].retry_count = jobs[i].retry_count]_vars

\* ---------------------------------------------------------------------- C9
\* C9: once a job is completed it never becomes pending or failed again, also
\* when two retry passes overlap.
C9_CompletedStaysCompleted ==
    [][\A i \in DOMAIN jobs \cap DOMAIN jobs' :
          jobs[i].status = "completed" => jobs'[i].status = "completed"]_vars

\* --------------------------------------------------------------------- C10
\* C10: a job whose status is failed has retry_count >= max_retries.
C10_FailedHasMaxRetries ==
    \A i \in DOMAIN jobs :
        jobs[i].status = "failed" => jobs[i].retry_count >= max_retries

\* A job that was marked failed until it became failed.
C10_Witness ==
    \E i \in DOMAIN jobs : jobs[i].status = "failed"

\* --------------------------------------------------------------------- C11
\* The function of queue.py a step of a direct caller has called.
Op == proc'[Main].api.op

\* C11: a job's retry_count is 0 when the job is enqueued and is changed only by
\* mark_failed for that job, by exactly one per call; enqueue_failed,
\* get_pending_jobs, mark_completed, get_queue_status and clear_completed leave
\* the retry_count of every job that remains unchanged.
C11_RetryCountOnlyByMarkFailed ==
    [][/\ \A i \in DOMAIN jobs' \ DOMAIN jobs : jobs'[i].retry_count = 0
       /\ \A i \in DOMAIN jobs \cap DOMAIN jobs' :
             IF Op = "mark_failed" /\ proc'[Main].api.id = i
             THEN jobs'[i].retry_count = jobs[i].retry_count + 1
             ELSE jobs'[i].retry_count = jobs[i].retry_count]_vars

\* A job that failed before has just been marked completed and still has its
\* retry count.
C11_Witness ==
    /\ proc[Main].api.op = "mark_completed"
    /\ \E i \in DOMAIN jobs :
          /\ i = proc[Main].api.id
          /\ jobs[i].status = "completed"
          /\ jobs[i].retry_count > 0

\* --------------------------------------------------------------------- C12
\* C12: get_pending_jobs(limit) returns exactly the pending jobs, oldest first,
\* cut to the first `limit` of them, each with its event; completed and failed
\* jobs are never returned.
C12_PendingOldestFirstUpToLimit ==
    proc[Main].api.op = "get_pending_jobs" =>
        LET r == proc[Main].api.rows
            pending == {i \in DOMAIN jobs : jobs[i].status = "pending"}
            got == {r[k].id : k \in 1..Len(r)}
        IN  /\ got \subseteq pending
            /\ \A k \in 1..Len(r) : \A m \in 1..Len(r) : k < m => r[k].id < r[m].id
            /\ \A i \in pending \ got : \A k \in got : k < i
            /\ Len(r) = IF Cardinality(pending) <= proc[Main].api.limit
                        THEN Cardinality(pending) ELSE proc[Main].api.limit
            /\ \A k \in 1..Len(r) :
                  model_dump_json(r[k].event) = jobs[r[k].id].event

\* A call whose limit is smaller than the number of pending jobs.
C12_Witness ==
    /\ proc[Main].api.op = "get_pending_jobs"
    /\ proc[Main].api.limit < Cardinality({i \in DOMAIN jobs : jobs[i].status = "pending"})
    /\ Len(proc[Main].api.rows) = proc[Main].api.limit

\* --------------------------------------------------------------------- C13
\* C13: enqueue_failed(event, error) adds exactly one job, pending with
\* retry_count 0, under an id no job ever had, leaves the other jobs unchanged,
\* and get_pending_jobs reads the enqueued event back for that id.
C13_EnqueueAddsOneFreshJob ==
    [][Op = "enqueue_failed" /\ seq' # seq =>
          LET id == proc'[Main].api.id
              back == get_pending_jobs(jobs', Cardinality(DOMAIN jobs'))
          IN  /\ id \notin 1..seq
              /\ id \notin DOMAIN jobs
              /\ DOMAIN jobs' = DOMAIN jobs \cup {id}
              /\ jobs'[id].status = "pending"
              /\ jobs'[id].retry_count = 0
              /\ \A i \in DOMAIN jobs : jobs'[i] = jobs[i]
              /\ \E k \in 1..Len(back) :
                    /\ back[k].id = id
                    /\ back[k].event = proc'[Main].api.event]_vars

\* A job was enqueued after an earlier job had been cleared from the table.
C13_Witness ==
    /\ proc[Main].api.op = "enqueue_failed"
    /\ proc[Main].api.id \in DOMAIN jobs
    /\ \E i \in 1..seq : i \notin DOMAIN jobs

\* --------------------------------------------------------------------- C14
\* C14: get_session_state(id) returns the state given to the most recent
\* save_session_state(id, ...), whatever was saved for other ids, and returns
\* absent when nothing was ever saved for id.
C14_GetReturnsLastSave ==
    proc[Main].api.op = "get_session_state" =>
        LET sid == proc[Main].api.sid
            last == proc[Main].saved[sid]
        IN  IF last.kind = "valid"
            THEN proc[Main].api.state = last
            ELSE IF store[sid].kind = "absent"
            THEN proc[Main].api.state = NoState
            ELSE proc[Main].api.state \in InitialFiles \cup {NoState}

\* A get that returned what a save had put in place of an earlier state, while
\* the other session's file still holds that earlier state.
C14_Witness ==
    /\ proc[Main].api.op = "get_session_state"
    /\ proc[Main].saved[proc[Main].api.sid].kind = "valid"
    /\ proc[Main].api.state = proc[Main].saved[proc[Main].api.sid]
    /\ \E other \in Sessions \ {proc[Main].api.sid} :
          /\ proc[Main].saved[other].kind # "valid"
          /\ store[other].kind = "valid"
          /\ store[other] # proc[Main].api.state

\* --------------------------------------------------------------------- C15
\* C15: a corrupted or schema-incomplete stored record counts as absent and
\* raises nothing: the run that finds it proceeds with offset 0 and no previous
\* summary, and once its publish has succeeded the run has put a valid state in
\* the place of the bad record.
C15_BadRecordIsReplaced ==
    \A p \in Procs :
        proc[p].before.kind \in {"corrupt", "incomplete"} =>
            /\ proc[p].pc \in {"parse", "gate", "summarize", "publish", "save"} =>
                  /\ proc[p].start_line = 0
                  /\ proc[p].previous_summary = "None"
            /\ (Over(p) /\ proc[p].block_uid # "None") =>
                  /\ proc[p].outcome = "success"
                  /\ store[SessionOf(p)].kind = "valid"

C18_UnchangedTranscriptIsSkipped ==
    \A p \in Procs :
        (/\ Parsed(p)
         /\ proc[p].before.kind = "valid"
         /\ proc[p].before.last_line_count = proc[p].seen_lines)
            => /\ proc[p].pc = "gate" => proc[p].transcript.messages = <<>>
               /\ proc[p].pc \notin {"summarize", "publish", "save"}
               /\ Over(p) => /\ proc[p].outcome = "skipped"
                              /\ proc[p].calls.publisher = 0

\* --------------------------------------------------------------------- C19
\* C19: parsing from offset k succeeds, returns only messages of lines after the
\* first k lines (none when k is beyond the end), and returns total_lines.
C19_ParseFromOffset ==
    \A p \in Procs :
        Parsed(p) =>
            /\ proc[p].error # "TypeError"
            /\ proc[p].pc = "gate" =>
                  Len(proc[p].transcript.messages) <=
                      IF proc[p].seen_lines >= proc[p].start_line
                      THEN proc[p].seen_lines - proc[p].start_line ELSE 0
            /\ "total_lines" \in ParsedTranscriptFields

\* --------------------------------------------------------------------- C20
\* C20: a run whose parsed new content is not empty and has a token estimate
\* below 50 ends Skipped, and has called neither the triviality classifier nor
\* the summarizer nor the publisher.
C20_ShortContentSkipsUncalled ==
    [][\A p \in Procs :
          (/\ proc[p].pc = "gate"
           /\ proc[p].transcript.messages # <<>>
           /\ proc[p].transcript.token_estimate < MinTokens
           /\ proc'[p] # proc[p])
              => /\ proc'[p].pc = "end"
                 /\ proc'[p].outcome = "skipped"
                 /\ proc'[p].calls = NoCalls]_vars

\* A run ended by the length check.
C20_Witness ==
    \E p \in Procs :
        /\ Over(p)
        /\ proc[p].outcome = "skipped"
        /\ proc[p].error = "New content too short to log"
        /\ proc[p].calls = NoCalls

\* --------------------------------------------------------------------- C21
\* Replies that are a failure of the classifier call itself.
ClassifierFailures == {"EXIT_NONZERO", "TIMEOUT", "NOT_FOUND", "SUBPROCESS_ERROR"}

\* C21: when the classifier call fails (non-zero exit, timeout, missing tool,
\* other subprocess error) the gate returns not trivial with a check-failure
\* reason, and the run is not skipped but goes on to the summarizer.
C21_GateFailsOpen ==
    \A p \in Procs :
        proc[p].gate.said \in ClassifierFailures =>
            /\ proc[p].gate.trivial = FALSE
            /\ proc[p].gate.reason \in {"Triviality check failed",
                                        "Triviality check error"}
            /\ proc[p].pc = "summarize"
            /\ proc[p].outcome = "none"

\* A run about to call the summarizer after the classifier timed out.
C21_Witness ==
    \E p \in Procs :
        /\ proc[p].gate.said = "TIMEOUT"
        /\ proc[p].pc = "summarize"
        /\ proc[p].calls.classifier = 1

\* --------------------------------------------------------------------- C25
\* C25 as stated: in one run the classifier and the summarizer are each invoked
\* at most once, and a failure of either is at once the failure of the run.
C25_OnlyPublishRetries ==
    \A p \in Procs :
        /\ proc[p].calls.classifier <= 1
        /\ proc[p].calls.summarizer <= 1
        /\ proc[p].attempt <= 1
        /\ proc[p].gate.said \in ClassifierFailures => proc[p].outcome = "failed"

\* C25, amended: in one run the classifier is invoked at most once and its
\* failure does not fail the run; summarize_transcript is called at most once
\* and makes at most 3 attempts: an attempt is repeated only after a retryable
\* failure and while fewer than 3 were made, the failure of the 3rd attempt
\* and every failure that is not retryable end the run as failed.
C25_SummarizerRetriesThrice ==
    [][\A p \in Procs :
          /\ proc'[p].calls.classifier <= 1
          /\ proc'[p].calls.summarizer <= 1
          /\ proc'[p].attempt < SummarizeAttempts
          /\ proc'[p].gate.said \in ClassifierFailures => proc'[p].outcome = "none"
          /\ (proc[p].pc = "summarize" /\ proc'[p] # proc[p]) =>
                /\ proc'[p].calls.summarizer = 1
                /\ proc'[p].pc = "summarize" =>
                      proc'[p].attempt = proc[p].attempt + 1
                /\ proc'[p].pc \notin {"summarize", "publish"} =>
                      /\ proc'[p].pc = "end"
                      /\ proc'[p].outcome = "failed"
                      /\ proc'[p].error \in {"SummarizationError", "RetryError"}
                      /\ proc'[p].error = "RetryError" =>
                            proc[p].attempt = SummarizeAttempts - 1]_vars

\* A run that failed when its third summarizer attempt failed.
C25_Witness ==
    \E p \in Procs :
        /\ Over(p)
        /\ proc[p].outcome = "failed"
        /\ proc[p].error = "RetryError"
        /\ proc[p].calls.summarizer = 1
        /\ proc[p].calls.classifier = 1

\* ---------------------------------------------------------------------- C29
Rendered == proc[Main].render

\* The lines of one kind among the child blocks of the rendered batch.
LinesOf(kind) ==
    {k \in 2..Len(Rendered.actions) : Rendered.actions[k].line.kind = kind}

Min(a, b) == IF a <= b THEN a ELSE b

\* C29 as stated: min(n, 3) artifact lines, no tmux line for "none", exactly
\* one tmux line for every other tmux value.
C29_TmuxLineUnlessNone ==
    Rendered.fn = "_build_batch_actions" =>
        /\ Cardinality(LinesOf("artifact")) = Min(Len(Rendered.artifacts), 3)
        /\ Rendered.tmux = "none" => LinesOf("tmux") = {}
        /\ Rendered.tmux # "none" => Cardinality(LinesOf("tmux")) = 1

\* C29 amended: rendering emits min(n, 3) artifact lines, the first three
\* artifacts in order after every other line; no tmux line when the event has
\* no tmux session, an empty one or "none"; exactly one, right after the
\* project line, for every other value.
C29_TmuxLineWhenSet ==
    Rendered.fn = "_build_batch_actions" =>
        LET acts == Rendered.actions
            n == Min(Len(Rendered.artifacts), 3)
        IN  /\ Cardinality(LinesOf("artifact")) = n
            /\ \A k \in 1..n :
                  /\ acts[Len(acts) - n + k].line.kind = "artifact"
                  /\ acts[Len(acts) - n + k].line.item = Rendered.artifacts[k]
            /\ Rendered.tmux \in {"None", "", "none"} => LinesOf("tmux") = {}
            /\ Rendered.tmux \notin {"None", "", "none"} =>
                  /\ LinesOf("tmux") = {3}
                  /\ acts[2].line.kind = "project"
            /\ \A k \in 2..Len(acts) :
                  acts[k].parent = acts[1].uid /\ acts[k].order = k - 2

C29_Witness ==
    /\ Rendered.fn = "_build_batch_actions"
    /\ Len(Rendered.artifacts) = 4
    /\ Cardinality(LinesOf("artifact")) = 3
    /\ Rendered.tmux = "main"
    /\ LinesOf("tmux") = {3}

\* ---------------------------------------------------------------------- C30
\* C30: for every day of the month the daily page title is
\* "Month d<suffix>, Year" with st for 1, 21, 31, nd for 2, 22, rd for 3, 23
\* and th for every other day, 11, 12 and 13 included.
C30_OrdinalSuffix ==
    Rendered.fn = "_get_daily_page_title" =>
        LET d == Rendered.today.day
            suffix == IF d \in {1, 21, 31} THEN "st"
                      ELSE IF d \in {2, 22} THEN "nd"
                      ELSE IF d \in {3, 23} THEN "rd"
                      ELSE "th"
        IN  Rendered.title = <<Rendered.today.month, " ", d, suffix, ", ",
                               Rendered.today.year>>

C30_Witness ==
    /\ Rendered.fn = "_get_daily_page_title"
    /\ Rendered.today.day = 12
    /\ Rendered.title[4] = "th"

\* ---------------------------------------------------------------------- C22
Pub == proc[Main].pub

\* C22 as stated: 429, 5xx, a timeout or a connection error is a retryable
\* failure; every 2xx status is a success; every other status is a permanent
\* failure carrying the response body.
C22_Any2xxSucceeds ==
    Pub.attempt > 0 =>
        LET r == Pub.response
            o == Pub.outcome
        IN  IF r.kind # "response" \/ r.status = 429 \/ r.status >= 500
            THEN o.raised = "RetryableRoamError"
            ELSE IF r.status \in 200..299
            THEN o.raised = "None" /\ (r.text = "" => o.value = "success")
            ELSE o.raised = "RoamError" /\ o.text = r.text

\* C22 amended: 429, a status of 500 or more, a timeout or a connection error
\* is a retryable failure; status 200 or 204 is a success when the body is
\* blank (result "success") or a JSON object (result its uid, "success"
\* without one), and an unclassified error otherwise; every other status,
\* the other 2xx included, is a permanent failure carrying status and body.
C22_Only200And204Succeed ==
    Pub.attempt > 0 =>
        LET r == Pub.response
            o == Pub.outcome
        IN  IF r.kind # "response" \/ r.status = 429 \/ r.status >= 500
            THEN o.raised = "RetryableRoamError"
            ELSE IF r.status \in {200, 204}
            THEN CASE r.text \in {"", " "} ->
                        o.raised = "None" /\ o.value = "success"
                   [] r.text = "{}" -> o.raised = "None" /\ o.value = "success"
                   [] r.text = "{\"uid\": \"b1\"}" ->
                        o.raised = "None" /\ o.value = "b1"
                   [] OTHER ->
                        o.raised \in {"JSONDecodeError", "AttributeError"}
            ELSE /\ o.raised = "RoamError"
                 /\ o.status = r.status
                 /\ o.text = r.text

C22_Witness ==
    /\ Pub.attempt > 0
    /\ Pub.response.kind = "response"
    /\ Pub.response.status = 201
    /\ Pub.response.text = "{}"
    /\ Pub.outcome.raised = "RoamError"
    /\ Pub.pc = "raised"

\* ---------------------------------------------------------------------- C23
\* C23: a publish_to_roam call makes at most 5 attempts; a retryable failure
\* is followed by another attempt unless it was the 5th, after which the call
\* raises; a success returns at once and a permanent failure raises after
\* that single attempt; the wait between attempts never decreases.
C23_AtMostFiveAttempts ==
    [][ /\ Pub.attempt <= PublishAttempts
        /\ Pub.pc = "attempt" =>
              /\ Pub.attempt < PublishAttempts
              /\ Pub'.attempt = Pub.attempt + 1
              /\ CASE Pub'.outcome.raised = "None" ->
                         Pub'.pc = "returned" /\ Pub'.result = Pub'.outcome
                    [] Pub'.outcome.raised = "RetryableRoamError" ->
                         IF Pub'.attempt < PublishAttempts
                         THEN Pub'.pc = "wait" /\ Pub'.wait >= Pub.wait
                                               /\ Pub'.wait > 0
                         ELSE Pub'.pc = "raised"
                              /\ Pub'.result.raised = "RetryError"
                    [] OTHER ->
                         Pub'.pc = "raised" /\ Pub'.result = Pub'.outcome
        /\ Pub.pc = "wait" => Pub'.pc = "attempt" /\ Pub'.attempt = Pub.attempt
        /\ Pub.pc \in {"returned", "raised"} => Pub'.pc = "idle"
      ]_vars

C23_Witness ==
    /\ Pub.pc = "raised"
    /\ Pub.attempt = 5
    /\ Pub.wait = 16
    /\ Pub.result.raised = "RetryError"

\* ---------------------------------------------------------------------- C24
\* C24: one publish_to_roam call lands at most one batch in the remote graph,
\* also when an attempt times out after the server applied the write and the
\* call retries.
C24_OneBatchPerCall == Cardinality(Pub.landed) <= 1

\* ---------------------------------------------------------------------- C26
StatusOf(id) == IF id \in DOMAIN jobs THEN jobs[id].status ELSE "absent"

\* C26: when invocations run one after the other and retry passes keep being
\* run, every pending job eventually becomes completed or failed; a job's
\* retry_count never passes max_retries + 1, so a job whose run fails on every
\* pass is failed after max_retries + 1 passes; and a retry pass only ever
\* processes a job that is pending, never one that is completed or failed.
C26_PendingJobsDrain ==
    /\ \A id \in 1..MaxJobs :
          (StatusOf(id) = "pending") ~> (StatusOf(id) \in {"completed", "failed"})
    /\ [](\A id \in DOMAIN jobs :
            /\ jobs[id].retry_count <= max_retries + 1
            /\ jobs[id].retry_count = max_retries + 1 => jobs[id].status = "failed"
            /\ jobs[id].status = "pending" => jobs[id].retry_count <= max_retries)
    /\ [](\A p \in Procs :
            proc[p].cmd = "retry" /\ proc[p].pc \notin {"idle", "done"} =>
                StatusOf(proc[p].job_id) = "pending")

C26_Witness ==
    /\ proc[Main].cmd = "retry"
    /\ proc[Main].pc = "done"
    /\ proc[Main].mark.call = "mark_failed"
    /\ StatusOf(proc[Main].mark.id) = "failed"
    /\ jobs[proc[Main].mark.id].retry_count = max_retries + 1

\* ---------------------------------------------------------------------- C27
\* Two runs for the same session that have both published.
BothPublished(p, q) ==
    /\ p # q
    /\ SessionOf(p) = SessionOf(q)
    /\ proc[p].block_uid # "None"
    /\ proc[q].block_uid # "None"

\* C27: two process_session runs for one session can interleave so that both
\* publish the same range and both save, the last save deciding the stored
\* last_line_count: once two such runs have both published and are over, the
\* store holds the record one of them saved.
C27_RacingRunsBothSave ==
    \A p, q \in Procs :
        BothPublished(p, q) /\ Over(p) /\ Over(q) =>
            LET st == get_session_state(store, SessionOf(p))
            IN  /\ st.kind = "valid"
                /\ st.last_summary \in {proc[p].summary, proc[q].summary}
                /\ proc[p].outcome = "success"
                /\ proc[q].outcome = "success"

\* ---------------------------------------------------------------------- C28
\* The ids the enqueue_failed calls of all processes returned.
MadeIds == UNION {{proc[p].db.made[k] : k \in 1..Len(proc[p].db.made)} : p \in Procs}

RECURSIVE SumMarked(_, _)
SumMarked(ps, id) ==
    IF ps = {} THEN 0
    ELSE LET p == CHOOSE q \in ps : TRUE
         IN  proc[p].db.marked[id] + SumMarked(ps \ {p}, id)

RECURSIVE SumMade(_)
SumMade(ps) ==
    IF ps = {} THEN 0
    ELSE LET p == CHOOSE q \in ps : TRUE
         IN  Len(proc[p].db.made) + SumMade(ps \ {p})

\* C28: queue calls of concurrent processes lose no update: the retry_count of
\* every job is the number of mark_failed calls on it that returned, whatever
\* their interleaving, and the enqueue_failed calls that returned created one
\* job each, under ids that are all different.
C28_NoLostUpdate ==
    /\ \A id \in DOMAIN jobs : jobs[id].retry_count = SumMarked(Procs, id)
    /\ DOMAIN jobs = MadeIds
    /\ Cardinality(MadeIds) = SumMade(Procs)

C28_Witness ==
    /\ \A p \in Procs : proc[p].db.pc = "idle" /\ proc[p].db.marked[1] = 1
    /\ proc[Main].db.made = <<1>>
    /\ proc[Second].db.made = <<2>>
    /\ jobs[1].retry_count = 2
    /\ jobs[2].retry_count = 0

\* ---------------------------------------------------------------------- C31
\* C31: clear_completed removes exactly the jobs that are completed and were
\* last updated before the retention window, returns their number, and leaves
\* every pending job, every failed job and every newer completed job as it was.
C31_ClearRemovesOldCompleted ==
    [][Op = "clear_completed" =>
          LET old == proc'[Main].api.old
              gone == DOMAIN jobs \ DOMAIN jobs'
          IN  /\ gone = {i \in DOMAIN jobs : jobs[i].status = "completed" /\ i \in old}
              /\ proc'[Main].api.count = Cardinality(gone)
              /\ DOMAIN jobs' \subseteq DOMAIN jobs
              /\ \A i \in DOMAIN jobs' : jobs'[i] = jobs[i]
              /\ \A i \in DOMAIN jobs :
                    jobs[i].status \in {"pending", "failed"} \/ i \notin old =>
                        i \in DOMAIN jobs'
              /\ seq' = seq]_vars

\* An old completed job was removed next to an old failed one that stayed.
C31_Witness ==
    /\ proc[Main].api.op = "clear_completed"
    /\ proc[Main].api.count = 1
    /\ proc[Main].api.old = {1, 2}
    /\ DOMAIN jobs = {2}
    /\ jobs[2].status = "failed"

KindRank(kind) ==
    CASE kind = "project" -> 1
      [] kind = "tmux" -> 2
      [] kind = "summary" -> 3
      [] kind = "PR" -> 4
      [] kind = "service" -> 5
      [] kind = "artifact" -> 6
      [] OTHER -> 0

C34_PreviousSummaryIsContext ==
    [][\A p \in Procs :
          LET f == proc[p]
              g == proc'[p]
              st == get_session_state(store, f.event.session_id)
          IN  /\ (f.pc = "summarize" /\ g.pc \in {"summarize", "publish"}
                                        /\ g # f) =>
                    /\ g.context = IF st.kind = "valid" /\ st.last_summary # ""
                                    THEN st.last_summary ELSE "None"
                    /\ g.pc = "publish" => g.transcript = f.transcript
              /\ (f.pc = "gate" /\ g # f) =>
                    /\ f.context = "None"
                    /\ g.context = "None"
                    /\ f.transcript =
                          parse_codex_history(history, f.event.session_id)
                    /\ f.transcript.token_estimate >= MinTokens =>
                          g.gate.trivial =
                             (f.transcript.token_estimate < GateMinTokens
                                 \/ g.gate.said = "NO")]_vars

\* A run whose summarizer got the stored summary in front of the content.
C34_Witness ==
    \E p \in Procs :
        /\ proc[p].pc = "publish"
        /\ proc[p].context = "sumA"
        /\ store[SessionOf(p)] = SessionState(0, 1, "sumA")
        /\ proc[p].transcript.messages # <<>>

\* ---------------------------------------------------------------------- C35
\* C35: below 100 tokens the gate makes no external call and returns trivial
\* with a too-short reason, so a run whose content has 50..99 tokens is skipped
\* too; from 100 tokens on it calls the classifier once and returns trivial
\* exactly when the reply starts with NO, not trivial for YES or an unclear
\* reply.
C35_GateFloorAndReply ==
    [][LET f == proc[Main]
           g == proc'[Main]
           tokens == g.transcript.token_estimate
       IN  /\ (f.pc = "idle" /\ g.pc = "idle" /\ g # Idle) =>
                 IF tokens < 100
                 THEN /\ g.gate.trivial
                      /\ g.gate.reason = "Session too short"
                      /\ g.calls.classifier = 0
                 ELSE /\ g.calls.classifier = 1
                      /\ g.gate.trivial <=> g.gate.said = "NO"
                      /\ g.gate.said \in {"YES", "UNCLEAR"} => ~g.gate.trivial
           /\ (f.pc = "gate" /\ g # f /\ f.transcript.token_estimate >= 50) =>
                 IF f.transcript.token_estimate < 100
                 THEN /\ g.pc = "end"
                      /\ g.outcome = "skipped"
                      /\ g.error = "Session too short"
                      /\ g.calls = NoCalls
                 ELSE /\ g.calls.classifier = 1
                      /\ g.gate.said = "NO" =>
                            g.pc = "end" /\ g.outcome = "skipped"
                      /\ g.gate.said # "NO" =>
                            g.pc = "summarize" /\ g.outcome = "none"
      ]_vars

\* A run skipped by the gate for content of 50..99 tokens, no call made.
C35_Witness ==
    /\ proc[Main].pc = "end"
    /\ proc[Main].outcome = "skipped"
    /\ proc[Main].error = "Session too short"
    /\ proc[Main].gate.said = "none"
    /\ proc[Main].calls = NoCalls

\* --------------------------------------------------------------------- C36
Sum == proc[Main].sum

\* A transient failure: the subprocess timed out, or exited non-zero with
\* an error stream that speaks of a rate or a limit.
Transient(run) ==
    \/ run.kind = "TimeoutExpired"
    \/ /\ run.kind = "completed"
       /\ run.returncode # 0
       /\ run.stderr \in {"Rate limit exceeded", "usage limit reached",
                          "failed to generate response"}

\* A permanent failure: another non-zero exit, a missing tool, or output in
\* which no JSON is found.
Permanent(run) ==
    \/ run.kind = "FileNotFoundError"
    \/ run.kind = "completed" /\ run.returncode # 0 /\ ~Transient(run)
    \/ /\ run.kind = "completed"
       /\ run.returncode = 0
       /\ run.stdout \in {"", "{summary: sumA}", "I could not summarize."}

C37_OneMarkPerListedJob ==
    [][\A p \in Procs :
          (proc[p].cmd = "retry" /\ proc[p].pc # "done" /\ proc'[p] # proc[p]) =>
             LET f == proc[p]
                 g == proc'[p]
                 id == f.pending[f.idx].id
             IN  /\ DOMAIN jobs' = DOMAIN jobs
                 /\ IF f.pc = "end"
                    THEN /\ g.mark.id = id
                         /\ g.mark.call \in {"mark_completed", "mark_failed"}
                         /\ jobs' = IF g.mark.call = "mark_completed"
                                    THEN mark_completed(jobs, id)
                                    ELSE mark_failed(jobs, id, f.error)
                         /\ IF f.idx < Len(f.pending)
                            THEN g.idx = f.idx + 1 /\ g.pc = "load"
                            ELSE g.idx = f.idx /\ g.pc = "done"
                    ELSE /\ jobs' = jobs
                         /\ g.idx = f.idx
                         /\ g.pc # "done"]_vars

\* A pass over two listed jobs is over: the first job's run failed and the
\* job was marked failed, the second job's run was skipped and the job was
\* marked completed, and the queue holds the two records it held.
C37_Witness ==
    LET f == proc[Main]
    IN  /\ f.cmd = "retry"
        /\ f.pc = "done"
        /\ Len(f.pending) = 2
        /\ f.idx = 2
        /\ f.mark.id = f.pending[2].id
        /\ f.mark.call = "mark_completed"
        /\ jobs[f.pending[1].id].retry_count = 1
        /\ jobs[f.pending[2].id].status = "completed"
        /\ DOMAIN jobs = 1..2

\* --------------------------------------------------------------------- C38
\* C38: a step of a process_session run leaves the stored state of every
\* session other than the event's as it is, and what the run takes from the
\* store when it loads (the offset, the previous summary) is what the file of
\* the event's own session holds, whatever the other files hold.
C38_OwnSessionStateOnly ==
    [][\A p \in Procs :
          (/\ proc[p].pc \in {"load", "parse", "gate", "summarize", "publish", "save"}
           /\ proc'[p] # proc[p]) =>
             LET sid == SessionOf(p)
                 own == store[sid]
             IN  /\ \A s \in Sessions \ {sid} : store'[s] = store[s]
                 /\ proc[p].pc = "load" =>
                       /\ proc'[p].start_line =
                             IF own.kind = "valid" THEN own.last_line_count ELSE 0
                       /\ proc'[p].previous_summary =
                             IF own.kind = "valid" THEN own.last_summary
                             ELSE "None"]_vars

\* A run for a session whose file holds one summary, past its load step with
\* that summary, while the other session's file holds another summary and
\* another line count.
C38_Witness ==
    \E other \in Sessions \ {SessionOf(Main)} :
        /\ proc[Main].pc = "publish"
        /\ store[SessionOf(Main)].kind = "valid"
        /\ store[other].kind = "valid"
        /\ store[other].last_summary # store[SessionOf(Main)].last_summary
        /\ store[other].last_line_count # store[SessionOf(Main)].last_line_count
        /\ proc[Main].previous_summary = store[SessionOf(Main)].last_summary

\* --------------------------------------------------------------------- C39
\* C39: when a retry pass over several pending jobs of one session is over
\* and the transcript did not grow during it, at most one of the jobs' runs
\* published (no range was published twice), and if one did, the last job
\* of the pass, being the one that published or one that was skipped after
\* it, is marked completed.
C39_OnePublishPerSession ==
    LET f == proc[Main]
        n == Len(f.pending)
    IN  (/\ f.cmd = "retry"
         /\ f.pc = "done"
         /\ n >= 2
         /\ \A i \in 1..n : f.pending[i].event = f.pending[1].event) =>
            /\ relanded = {}
            /\ landed # {} => jobs[f.pending[n].id].status = "completed"

====
